---- MODULE Spec2Model ----
(***************************************************************************)
(* Model of the Lua scripting session of binja-lua                         *)
(* (src/luascriptingprovider.cpp, src/luascriptingprovider.h,              *)
(* src/bindings/common.h, src/bindings/common.cpp,                         *)
(* src/bindings/variable.cpp).                                             *)
(*                                                                         *)
(* Spec and SpecContext run one LuaScriptingInstance with every host call  *)
(* as one step; SpecInterleaved takes an execution apart into the steps    *)
(* between which a setter call can land; SpecSessions has a second         *)
(* instance; SpecSafeToString applies SafeToString to sample stacks;       *)
(* SpecVariable runs the VariableWrapper binding.                          *)
(*                                                                         *)
(* Of an instance the model holds its interpreter handle, the live         *)
(* and the cached context snapshot, the readiness flag, the interpreter's  *)
(* value stack and the magic-variable globals.  Every host entry point is  *)
(* one action; what the host can observe of a call (readiness              *)
(* notifications, channel messages, log records, the points where script   *)
(* code starts to run) is recorded in `events`, the trace of the most      *)
(* recent call.                                                            *)
(***************************************************************************)
EXTENDS Integers, Sequences, FiniteSets, TLC

VARIABLES
    phase,                      \* "running" | "aborted" (the process called abort())
                                \*   | "destroyed" (the destructor has run)
                                \*   | "compared" | "rebound" | "synced" (SpecInterleaved:
                                \*     how far an execution in flight has come)
    m_luaState,                 \* "nullptr" | "L"
    m_currentBinaryView,
    m_currentFunction,
    m_currentBasicBlock,
    m_currentAddress,
    m_selectionBegin,
    m_selectionEnd,
    m_inputReadyState,
    m_lastCachedBinaryView,
    m_lastCachedFunction,
    m_lastCachedBasicBlock,
    m_lastCachedAddress,
    m_lastCachedSelectionBegin,
    m_lastCachedSelectionEnd,
    globals,                    \* global name -> value bound in the interpreter
    stack,                      \* the interpreter's value stack between host calls
    events,                     \* what the most recent host call emitted, in order
    call,                       \* the most recent host call: entry point, input, result
    self,                       \* SpecSessions: the session the variables above belong to
    peer,                       \* SpecSessions: the other session alive, or NoSession
    s_storedLogger,             \* bindings/common.cpp: the session whose m_logger the
                                \*   static s_storedLogger holds
    hostVariable,               \* SpecVariable: name and type the host function holds
                                \*   for one variable of it
    wrappers                    \* SpecVariable: the VariableWrapper objects of that
                                \*   variable alive in the interpreter

live == <<m_currentBinaryView, m_currentFunction, m_currentBasicBlock,
          m_currentAddress, m_selectionBegin, m_selectionEnd>>

cached == <<m_lastCachedBinaryView, m_lastCachedFunction, m_lastCachedBasicBlock,
            m_lastCachedAddress, m_lastCachedSelectionBegin, m_lastCachedSelectionEnd>>

others == <<self, peer, s_storedLogger, hostVariable, wrappers>>

vars == <<phase, m_luaState, live, m_inputReadyState, cached, globals, stack, events, call,
          others>>

(***************************************************************************)
(* Bounds of the model.                                                    *)
(***************************************************************************)
MaxAddr == 1            \* addresses handed to SetCurrentAddress are 0..MaxAddr
MaxSel == 1             \* selection endpoints are 0..MaxSel
MaxStack == 2           \* executions that would leave more values than this are not started
MaxDepth == 2           \* SafeToString is applied to stacks of 1..MaxDepth values

(***************************************************************************)
(* Host handles.  NullRef is the null Ref<T>; equality is handle identity. *)
(***************************************************************************)
NullRef == "null"
Views == {NullRef, "view1"}
Functions == {NullRef, "func1"}
BasicBlocks == {NullRef, "block1"}
Addresses == 0..MaxAddr
SelectionEnds == 0..MaxSel

ReadyForScriptProgramInput == "ReadyForScriptProgramInput"
NotReadyForInput == "NotReadyForInput"
SuccessfulScriptExecution == "SuccessfulScriptExecution"
InvalidScriptInput == "InvalidScriptInput"

(***************************************************************************)
(* Interpreter values.  Every value is a record of the same shape:         *)
(*   kind  : the Lua type name                                             *)
(*   n, m  : integer payload (number value, address, selection start/end)  *)
(*   s     : string payload (string text, host handle)                     *)
(*   ut    : the bound usertype of a userdata ("" otherwise)               *)
(*   items : array part of a table, a sequence of values                   *)
(*   hook  : the __tostring metamethod seen by luaL_getmetafield:          *)
(*           "none", "ok" (returns a string), "nonstring" (returns a value *)
(*           that is no string), "raises" (raises a Lua error)             *)
(***************************************************************************)
Val(kind, ut, n, m, s, items, hook) ==
    [kind |-> kind, ut |-> ut, n |-> n, m |-> m, s |-> s, items |-> items, hook |-> hook]

NilV == Val("nil", "", 0, 0, "", <<>>, "none")
IntV(n) == Val("number", "", n, 0, "", <<>>, "none")
StrV(s) == Val("string", "", 0, 0, s, <<>>, "none")
BoolV(b) == Val("boolean", "", IF b THEN 1 ELSE 0, 0, "", <<>>, "none")
TableV(items) == Val("table", "", 0, 0, "", items, "none")
FuncV == Val("function", "", 0, 0, "", <<>>, "none")
\* a bound host object (sol usertype with meta_function::to_string); a null Ref is nil
RefV(ut, handle) ==
    IF handle = NullRef THEN NilV ELSE Val("userdata", ut, 0, 0, handle, <<>>, "ok")

(***************************************************************************)
(* BinjaLua::Selection and BinjaLua::HexAddress (src/bindings/common.h)    *)
(* and their string hooks (src/bindings/common.cpp).                       *)
(***************************************************************************)
\* a length that is the distance between the two ends, whatever their order
SelectionLength_Distance(start, end) == IF end > start THEN end - start ELSE start - end

\* Selection::length(), on uint64_t
SelectionLength(start, end) == IF end > start THEN end - start ELSE 0

HexAddress(v) == Val("userdata", "HexAddress", v, 0, "", <<>>, "ok")
Selection(s, e) == Val("userdata", "Selection", s, e, "", <<>>, "ok")

HexDigit(d) == SubSeq("0123456789abcdef", d + 1, d + 1)

RECURSIVE Hex(_)
\* fmt "{:x}" / string.format('%x')
Hex(n) == IF n < 16 THEN HexDigit(n) ELSE Hex(n \div 16) \o HexDigit(n % 16)

\* the text a usertype's __tostring hook returns
HookText(v) ==
    CASE v.ut = "HexAddress" -> "0x" \o Hex(v.n)
      [] v.ut = "Selection" ->
            "Selection(0x" \o Hex(v.n) \o "-0x" \o Hex(v.m) \o ", "
                \o ToString(SelectionLength(v.n, v.m)) \o " bytes)"
      [] OTHER -> "<" \o v.ut \o ": " \o v.s \o ">"

(***************************************************************************)
(* luaL_tolstring as the evaluator and print use it: it calls a __tostring *)
(* hook of any value that has one, outside any protected call in           *)
(* ExecuteScriptInput.  The result says whether a Lua error was raised.    *)
(***************************************************************************)
luaL_tolstring(v) ==
    CASE v.hook = "ok" -> [raised |-> FALSE, text |-> HookText(v)]
      [] v.hook \in {"raises", "nonstring"} -> [raised |-> TRUE, text |-> ""]
      [] v.kind = "number" -> [raised |-> FALSE, text |-> ToString(v.n)]
      [] v.kind = "string" -> [raised |-> FALSE, text |-> v.s]
      [] v.kind = "boolean" -> [raised |-> FALSE, text |-> IF v.n = 1 THEN "true" ELSE "false"]
      [] v.kind = "nil" -> [raised |-> FALSE, text |-> "nil"]
      [] OTHER -> [raised |-> FALSE, text |-> v.kind \o ": 0x0"]

\* lua_tolstring: only strings and numbers convert; anything else yields NULL
lua_tolstring(v) ==
    CASE v.kind = "string" -> [null |-> FALSE, text |-> v.s]
      [] v.kind = "number" -> [null |-> FALSE, text |-> ToString(v.n)]
      [] OTHER -> [null |-> TRUE, text |-> ""]

(***************************************************************************)
(* SafeToString with its stack traffic.  st is the interpreter stack on    *)
(* entry, index the position it is given (positive: from the bottom,       *)
(* negative: from the top), checkstackOk the answer of lua_checkstack.     *)
(* The hook found by luaL_getmetafield is pushed as a function value that  *)
(* keeps the usertype of its owner; lua_pushvalue(L, index) then copies    *)
(* whatever the index designates on the grown stack.  A usertype hook that *)
(* receives something else than a userdata of its usertype raises an error *)
(* in a build with SOL_ALL_SAFETIES_ON and dereferences a null pointer in  *)
(* a build without (sol_config.h): foreign is that outcome.                *)
(***************************************************************************)
ForeignOutcomes == {"raises", "crash"}

AbsIndex(st, index) == IF index > 0 THEN index ELSE Len(st) + 1 + index

luaL_typename(v) == v.kind

\* a pop that leaves the values where they are
lua_pop_KeepsValues(st, n) == st

lua_pop(st, n) == SubSeq(st, 1, Len(st) - n)

\* lua_pcall(L, 1, 1, 0) of the hook fn on the argument arg
HookCall(fn, arg, foreign) ==
    CASE fn.hook = "raises" -> [status |-> "error", value |-> StrV("hook error")]
      [] fn.hook = "nonstring" -> [status |-> "ok", value |-> TableV(<<>>)]
      [] fn.hook = "ok" /\ arg.kind = "userdata" /\ arg.ut = fn.ut ->
            [status |-> "ok", value |-> StrV(HookText(arg))]
      [] OTHER ->
            IF foreign = "raises"
            THEN [status |-> "error", value |-> StrV("stack index 1, expected userdata")]
            ELSE [status |-> "crash", value |-> NilV]

SafeToStringAt(st, index, checkstackOk, foreign) ==
    IF ~checkstackOk
    THEN [text |-> "<stack error>", stack |-> st, crashed |-> FALSE]
    ELSE LET v == st[AbsIndex(st, index)]
         IN  CASE v.kind = "string" -> [text |-> v.s, stack |-> st, crashed |-> FALSE]
               [] v.kind = "number" -> [text |-> ToString(v.n), stack |-> st, crashed |-> FALSE]
               [] v.kind = "boolean" ->
                    [text |-> IF v.n = 1 THEN "true" ELSE "false", stack |-> st,
                     crashed |-> FALSE]
               [] v.kind = "nil" -> [text |-> "nil", stack |-> st, crashed |-> FALSE]
               [] v.kind = "userdata" ->
                    IF v.hook # "none"
                    THEN LET hooked == st \o <<[v EXCEPT !.kind = "function"]>>
                             pushed == hooked \o <<hooked[AbsIndex(hooked, index)]>>
                             c == HookCall(pushed[Len(pushed) - 1], pushed[Len(pushed)], foreign)
                             called == SubSeq(pushed, 1, Len(pushed) - 2) \o <<c.value>>
                             popped == lua_pop(called, 1)
                         IN  CASE c.status = "ok" ->
                                    [text |-> IF lua_tolstring(c.value).null
                                              THEN "<tostring failed>"
                                              ELSE lua_tolstring(c.value).text,
                                     stack |-> popped, crashed |-> FALSE]
                               [] c.status = "error" ->
                                    [text |-> "<" \o luaL_typename(popped[AbsIndex(popped, index)])
                                                \o ">",
                                     stack |-> popped, crashed |-> FALSE]
                               [] OTHER -> [text |-> "", stack |-> pushed, crashed |-> TRUE]
                    ELSE [text |-> "<" \o luaL_typename(v) \o ">", stack |-> st,
                          crashed |-> FALSE]
               [] v.kind = "table" -> [text |-> "<table>", stack |-> st, crashed |-> FALSE]
               [] v.kind = "function" -> [text |-> "<function>", stack |-> st, crashed |-> FALSE]
               [] OTHER -> [text |-> "<" \o luaL_typename(v) \o ">", stack |-> st,
                            crashed |-> FALSE]

(***************************************************************************)
(* LuaScriptingInstance::SafeToString, the text alone, for a value no hook *)
(* of which is handed anything but the value itself: the error values of   *)
(* the catalog are strings, numbers and tables, which carry no hook.       *)
(***************************************************************************)
SafeToString(v) == SafeToStringAt(<<v>>, 1, TRUE, "raises").text

(***************************************************************************)
(* The dump() pretty-printer registered by SetupUtilityFunctions, for the  *)
(* values of the model: tables are arrays (n = #o > 0) or empty.           *)
(***************************************************************************)
RECURSIVE Spaces(_)
Spaces(indent) == IF indent = 0 THEN "" ELSE "  " \o Spaces(indent - 1)

RECURSIVE dump(_, _)
RECURSIVE dumpItems(_, _, _)
dumpItems(items, i, indent) ==
    IF i > Len(items) THEN ""
    ELSE Spaces(indent + 1) \o dump(items[i], indent + 1).text
            \o (IF i < Len(items) THEN "," ELSE "") \o "\n"
            \o dumpItems(items, i + 1, indent)

RECURSIVE AnyRaises(_, _)
AnyRaises(items, indent) ==
    \E i \in 1..Len(items) : dump(items[i], indent + 1).raised

dump(o, indent) ==
    CASE o.kind = "table" ->
            [raised |-> AnyRaises(o.items, indent),
             text |-> "{\n" \o dumpItems(o.items, 1, indent) \o Spaces(indent) \o "}"]
      [] o.kind = "string" -> [raised |-> FALSE, text |-> "\"" \o o.s \o "\""]
      [] o.kind = "number" /\ o.n > 4096 -> [raised |-> FALSE, text |-> "0x" \o Hex(o.n)]
      [] OTHER -> luaL_tolstring(o)

(***************************************************************************)
(* The host queries UpdateMagicVariableValues makes.  The host's analysis  *)
(* is a fixed black box: odd addresses of a view carry a file mapping, a   *)
(* section, a symbol and a comment, even addresses carry none.             *)
(***************************************************************************)
GetDataOffsetForAddress(view, addr) == [found |-> addr % 2 = 1, fileOffset |-> addr * 16]
GetSectionsAt(view, addr) == IF addr % 2 = 1 THEN <<".text">> ELSE <<>>
GetSymbolByAddress(view, addr) == IF addr % 2 = 1 THEN "sym_main" ELSE NullRef
GetCommentForAddress(view, addr) == IF addr % 2 = 1 THEN "entry" ELSE ""
GetLowLevelIL(func) == "llil_" \o func
GetMediumLevelIL(func) == "mlil_" \o func
GetHighLevelIL(func) == "hlil_" \o func

\* the host queries that may throw while the magic variables are derived
HostFailures == {"none", "GetSectionsAt"}

(***************************************************************************)
(* The magic variables, in the order UpdateMagicVariableValues assigns     *)
(* them.                                                                   *)
(***************************************************************************)
MagicOrder ==
    <<"current_function", "bv", "current_view", "current_basic_block",
      "current_address", "here", "current_selection", "current_raw_offset",
      "current_sections", "current_symbol", "current_symbols", "current_comment",
      "current_llil", "current_mlil", "current_hlil">>

MagicNames == {MagicOrder[i] : i \in 1..Len(MagicOrder)}

\* a global that scripts of the catalog define themselves
UserGlobals == {"total"}
GlobalNames == MagicNames \cup UserGlobals

IndexOf(name) == CHOOSE i \in 1..Len(MagicOrder) : MagicOrder[i] = name

RECURSIVE RefList(_, _)
RefList(ut, handles) ==
    IF handles = <<>> THEN <<>>
    ELSE <<RefV(ut, Head(handles))>> \o RefList(ut, Tail(handles))

\* a raw offset taken from the out-parameter whatever the query answered
RawOffset_IgnoresAnswer(view, addr) ==
    HexAddress(GetDataOffsetForAddress(view, addr).fileOffset)

\* the value bound to current_raw_offset
RawOffset(view, addr) ==
    IF view # NullRef
    THEN IF GetDataOffsetForAddress(view, addr).found
         THEN HexAddress(GetDataOffsetForAddress(view, addr).fileOffset)
         ELSE HexAddress(0)
    ELSE HexAddress(0)

\* the value UpdateMagicVariableValues assigns to one name, from a snapshot
MagicValue(name, view, func, block, addr, selBegin, selEnd) ==
    CASE name = "current_function" -> RefV("Function", func)
      [] name \in {"bv", "current_view"} -> RefV("BinaryView", view)
      [] name = "current_basic_block" -> RefV("BasicBlock", block)
      [] name \in {"current_address", "here"} -> HexAddress(addr)
      [] name = "current_selection" -> Selection(selBegin, selEnd)
      [] name = "current_raw_offset" -> RawOffset(view, addr)
      [] name = "current_sections" ->
            IF view # NullRef THEN TableV(RefList("Section", GetSectionsAt(view, addr)))
            ELSE TableV(<<>>)
      [] name = "current_symbol" ->
            IF view # NullRef THEN RefV("Symbol", GetSymbolByAddress(view, addr)) ELSE NilV
      [] name = "current_symbols" ->
            IF view # NullRef /\ GetSymbolByAddress(view, addr) # NullRef
            THEN TableV(<<RefV("Symbol", GetSymbolByAddress(view, addr))>>)
            ELSE TableV(<<>>)
      [] name = "current_comment" ->
            IF view # NullRef THEN StrV(GetCommentForAddress(view, addr)) ELSE StrV("")
      [] name = "current_llil" ->
            IF func # NullRef THEN RefV("LowLevelILFunction", GetLowLevelIL(func)) ELSE NilV
      [] name = "current_mlil" ->
            IF func # NullRef THEN RefV("MediumLevelILFunction", GetMediumLevelIL(func)) ELSE NilV
      [] name = "current_hlil" ->
            IF func # NullRef THEN RefV("HighLevelILFunction", GetHighLevelIL(func)) ELSE NilV

\* the first name that is not assigned when the host query `failure` throws
\* (the query is only made with a current view); Len(MagicOrder) + 1 if none
FirstUnassigned(failure, view) ==
    IF failure = "GetSectionsAt" /\ view # NullRef THEN IndexOf("current_sections")
    ELSE Len(MagicOrder) + 1

(***************************************************************************)
(* LuaScriptingInstance::UpdateMagicVariableValues: the globals after the  *)
(* call.  An exception leaves the try block; the names after the throwing  *)
(* query keep their old binding.                                           *)
(***************************************************************************)
UpdateMagicVariableValues(g, failure) ==
    [name \in DOMAIN g |->
        IF name \in MagicNames
           /\ IndexOf(name) < FirstUnassigned(failure, m_currentBinaryView)
        THEN MagicValue(name, m_currentBinaryView, m_currentFunction, m_currentBasicBlock,
                        m_currentAddress, m_selectionBegin, m_selectionEnd)
        ELSE g[name]]

UpdateMagicVariableValuesLog(failure) ==
    IF FirstUnassigned(failure, m_currentBinaryView) <= Len(MagicOrder)
    THEN <<[ch |-> "log.error", by |-> "synchronizer",
            text |-> "UpdateMagicVariableValues failed: " \o failure]>>
    ELSE <<>>

\* a comparison of the current address with the wrong cached field
HasContextChanged_WrongField ==
    \/ m_currentBinaryView # m_lastCachedBinaryView
    \/ m_currentFunction # m_lastCachedFunction
    \/ m_currentBasicBlock # m_lastCachedBasicBlock
    \/ m_currentAddress # m_lastCachedSelectionBegin
    \/ m_selectionBegin # m_lastCachedSelectionBegin
    \/ m_selectionEnd # m_lastCachedSelectionEnd

(***************************************************************************)
(* LuaScriptingInstance::HasContextChanged                                 *)
(***************************************************************************)
HasContextChanged ==
    \/ m_currentBinaryView # m_lastCachedBinaryView
    \/ m_currentFunction # m_lastCachedFunction
    \/ m_currentBasicBlock # m_lastCachedBasicBlock
    \/ m_currentAddress # m_lastCachedAddress
    \/ m_selectionBegin # m_lastCachedSelectionBegin
    \/ m_selectionEnd # m_lastCachedSelectionEnd

\* a commit that copies the start of the selection into both cached ends
UpdateContextCache_BeginTwice ==
    /\ m_lastCachedBinaryView' = m_currentBinaryView
    /\ m_lastCachedFunction' = m_currentFunction
    /\ m_lastCachedBasicBlock' = m_currentBasicBlock
    /\ m_lastCachedAddress' = m_currentAddress
    /\ m_lastCachedSelectionBegin' = m_selectionBegin
    /\ m_lastCachedSelectionEnd' = m_selectionBegin

\* a commit that forgets the end of the selection
UpdateContextCache_ForgetsSelectionEnd ==
    /\ m_lastCachedBinaryView' = m_currentBinaryView
    /\ m_lastCachedFunction' = m_currentFunction
    /\ m_lastCachedBasicBlock' = m_currentBasicBlock
    /\ m_lastCachedAddress' = m_currentAddress
    /\ m_lastCachedSelectionBegin' = m_selectionBegin
    /\ m_lastCachedSelectionEnd' = m_lastCachedSelectionEnd

(***************************************************************************)
(* LuaScriptingInstance::UpdateContextCache                                *)
(***************************************************************************)
UpdateContextCache ==
    /\ m_lastCachedBinaryView' = m_currentBinaryView
    /\ m_lastCachedFunction' = m_currentFunction
    /\ m_lastCachedBasicBlock' = m_currentBasicBlock
    /\ m_lastCachedAddress' = m_currentAddress
    /\ m_lastCachedSelectionBegin' = m_selectionBegin
    /\ m_lastCachedSelectionEnd' = m_selectionEnd

(***************************************************************************)
(* LuaScriptingInstance::UpdateMagicVariables, called with a live          *)
(* interpreter state: rebinding and commit only if the context changed.    *)
(* The live snapshot is not written.  SyncedGlobals is the interpreter's   *)
(* globals when the call returns, UpdateMagicVariables the commit.         *)
(***************************************************************************)
\* a synchronization that rebinds whether or not the context changed
SyncedGlobals_Always(failure) == UpdateMagicVariableValues(globals, failure)

SyncedGlobals(failure) ==
    IF HasContextChanged THEN UpdateMagicVariableValues(globals, failure) ELSE globals

UpdateMagicVariables(failure) ==
    IF HasContextChanged THEN UpdateContextCache ELSE UNCHANGED cached

\* the trace of the call: which branch it took, and what the rebinding logged
UpdateMagicVariablesLog(failure) ==
    IF HasContextChanged
    THEN <<[ch |-> "sync", by |-> "synchronizer", text |-> "rebind"]>>
            \o UpdateMagicVariableValuesLog(failure)
    ELSE <<[ch |-> "sync", by |-> "synchronizer", text |-> "unchanged"]>>

(***************************************************************************)
(* Events of a host call, in emission order.  ch is "notify"              *)
(* (InputReadyStateChanged), "output" / "error" / "warning" (the host      *)
(* channels Output, Error, Warning), "log.info" / "log.error" / "log.warn" *)
(* (m_logger), "run" (a loaded chunk starts to run) or "panic" (an         *)
(* unprotected Lua error: panic handler, then abort()), "lua_close" (the   *)
(* interpreter state is closed) or "sync" (UpdateMagicVariables ran in an  *)
(* execution, with the branch it took).  by names the                      *)
(* emitter: "session", "evaluator", "synchronizer", "script", "lua".       *)
(***************************************************************************)
Ev(ch, by, text) == [ch |-> ch, by |-> by, text |-> text]

(***************************************************************************)
(* Script inputs.  A Lua program is described by what the interpreter does *)
(* with it:                                                                *)
(*   exprLoads / stmtLoads : whether "return " .. input / input compiles   *)
(*   effects : the calls to the globals print / error / warn it makes and  *)
(*             the globals it assigns ("assign": name = 7), in order,      *)
(*             before it returns or raises                                 *)
(*   raises, err : whether running it raises, and the error value          *)
(*   located : whether the interpreter itself raised the error, in which   *)
(*             case the message is prefixed with the chunk name and line   *)
(*   exprResults / stmtResults : the values the chunk returns in each form *)
(*   reads : if not "", the chunk returns the value of that global         *)
(***************************************************************************)
Prog(name, eLoads, sLoads, effects, raises, located, err, eResults, sResults, reads) ==
    [name |-> name, exprLoads |-> eLoads, stmtLoads |-> sLoads,
     effects |-> effects, raises |-> raises, located |-> located, err |-> err,
     exprResults |-> eResults, stmtResults |-> sResults, reads |-> reads]

Fx(fn, arg) == [fn |-> fn, arg |-> arg]

CallNilMsg == "attempt to call a nil value (global 'nonexistent_fn')"

Inputs ==
    { Prog("1 + 2", TRUE, FALSE, <<>>, FALSE, FALSE, NilV, <<IntV(3)>>, <<>>, ""),
      Prog("undefined_name", TRUE, FALSE, <<>>, FALSE, FALSE, NilV, <<NilV>>, <<>>, ""),
      Prog("select(2, 1)", TRUE, TRUE, <<>>, FALSE, FALSE, NilV, <<>>, <<>>, ""),
      Prog("{1, 5000}", TRUE, FALSE, <<>>, FALSE, FALSE, NilV,
           <<TableV(<<IntV(1), IntV(5000)>>)>>, <<>>, ""),
      Prog("current_comment", TRUE, FALSE, <<>>, FALSE, FALSE, NilV, <<>>, <<>>,
           "current_comment"),
      Prog("current_address", TRUE, FALSE, <<>>, FALSE, FALSE, NilV, <<>>, <<>>,
           "current_address"),
      Prog("current_selection", TRUE, FALSE, <<>>, FALSE, FALSE, NilV, <<>>, <<>>,
           "current_selection"),
      Prog("print('hi')", TRUE, TRUE, <<Fx("print", "hi")>>, FALSE, FALSE, NilV,
           <<>>, <<>>, ""),
      Prog("for i=1,2 do print(i) end", FALSE, TRUE,
           <<Fx("print", "1"), Fx("print", "2")>>, FALSE, FALSE, NilV, <<>>, <<>>, ""),
      Prog("do return 5 end", FALSE, TRUE, <<>>, FALSE, FALSE, NilV, <<>>, <<IntV(5)>>, ""),
      Prog("nonexistent_fn()", TRUE, TRUE, <<>>, TRUE, TRUE, StrV(CallNilMsg),
           <<>>, <<>>, ""),
      Prog("assert(false, '')", TRUE, TRUE, <<>>, TRUE, FALSE, StrV(""), <<>>, <<>>, ""),
      Prog("assert(false, {})", TRUE, TRUE, <<>>, TRUE, FALSE, TableV(<<>>), <<>>, <<>>, ""),
      Prog("total = 7", FALSE, TRUE, <<Fx("assign", "total")>>, FALSE, FALSE, NilV,
           <<>>, <<>>, ""),
      Prog("total", TRUE, FALSE, <<>>, FALSE, FALSE, NilV, <<>>, <<>>, "total"),
      Prog("x = = 1", FALSE, FALSE, <<>>, FALSE, FALSE, NilV, <<>>, <<>>, ""),
      Prog("error('a') + nil", TRUE, FALSE, <<Fx("error", "a")>>, TRUE, TRUE,
           StrV("attempt to perform arithmetic on a nil value"), <<>>, <<>>, ""),
      Prog("warn('w') nonexistent_fn()", FALSE, TRUE, <<Fx("warn", "w")>>, TRUE, TRUE,
           StrV(CallNilMsg), <<>>, <<>>, ""),
      Prog("error('a') print('b')", FALSE, TRUE, <<Fx("error", "a"), Fx("print", "b")>>,
           FALSE, FALSE, NilV, <<>>, <<>>, ""),
      Prog("(function() print('p'); nonexistent_fn() end)()", TRUE, TRUE,
           <<Fx("print", "p")>>, TRUE, TRUE, StrV(CallNilMsg), <<>>, <<>>, ""),
      Prog("debug.setmetatable(0, {__tostring = function() return {} end})",
           TRUE, TRUE, <<>>, FALSE, FALSE, NilV,
           <<Val("number", "", 0, 0, "", <<>>, "nonstring")>>, <<>>, "") }

\* Script files: run by luaL_dofile, so only the statement form is used.
\* A file that cannot be opened or compiled does not load.
Files ==
    { Prog("ok.lua", FALSE, TRUE, <<Fx("print", "hi")>>, FALSE, FALSE, NilV,
           <<>>, <<>>, ""),
      Prog("returns.lua", FALSE, TRUE, <<>>, FALSE, FALSE, NilV, <<>>, <<IntV(5)>>, ""),
      Prog("missing.lua", FALSE, FALSE, <<>>, FALSE, FALSE, NilV, <<>>, <<>>, ""),
      Prog("raise_string.lua", FALSE, TRUE, <<Fx("error", "a")>>, TRUE, TRUE,
           StrV(CallNilMsg), <<>>, <<>>, ""),
      Prog("raise_number.lua", FALSE, TRUE, <<>>, TRUE, FALSE, IntV(42), <<>>, <<>>, ""),
      Prog("raise_table.lua", FALSE, TRUE, <<>>, TRUE, FALSE, TableV(<<>>),
           <<>>, <<>>, "") }

(***************************************************************************)
(* LuaPrint, LuaError, LuaWarn: the host-visible events of one call made   *)
(* by a script with a string argument.  The error and warn globals report  *)
(* and return; they do not raise.                                          *)
(***************************************************************************)
\* a print that forwards the text without the line end
LuaPrint_NoLineEnd(arg) ==
    <<Ev("output", "script", arg), Ev("log.info", "script", "Script output: " \o arg)>>

LuaPrint(arg) ==
    <<Ev("output", "script", arg \o "\n"), Ev("log.info", "script", "Script output: " \o arg)>>

LuaError_Twice(arg) ==
    <<Ev("error", "script", arg \o "\n"), Ev("error", "script", arg \o "\n"),
      Ev("log.error", "script", "Script error: " \o arg)>>

LuaError(arg) ==
    <<Ev("error", "script", arg \o "\n"), Ev("log.error", "script", "Script error: " \o arg)>>

LuaWarn(arg) ==
    <<Ev("warning", "script", arg \o "\n"), Ev("log.warn", "script", "Script warning: " \o arg)>>

RECURSIVE EffectEvents(_)
EffectEvents(effects) ==
    IF effects = <<>> THEN <<>>
    ELSE (CASE Head(effects).fn = "print" -> LuaPrint(Head(effects).arg)
            [] Head(effects).fn = "error" -> LuaError(Head(effects).arg)
            [] Head(effects).fn = "warn" -> LuaWarn(Head(effects).arg)
            [] OTHER -> <<>>)
         \o EffectEvents(Tail(effects))

\* the globals after the assignments among the effects
RECURSIVE GlobalWrites(_, _)
GlobalWrites(effects, g) ==
    IF effects = <<>> THEN g
    ELSE GlobalWrites(Tail(effects),
                      IF Head(effects).fn = "assign"
                      THEN [g EXCEPT ![Head(effects).arg] = IntV(7)]
                      ELSE g)

(***************************************************************************)
(* luaL_dostring / luaL_dofile: load the chunk, then lua_pcall it with     *)
(* LUA_MULTRET.  On failure exactly the error value is pushed; on success  *)
(* every returned value is pushed.  mode is "expression" ("return " ..     *)
(* input), "statement" (input) or "file"; g is the globals the chunk sees, *)
(* the result's globals are those it leaves.                               *)
(***************************************************************************)
ChunkName(p, mode) ==
    CASE mode = "expression" -> "[string \"return " \o p.name \o "\"]"
      [] mode = "statement" -> "[string \"" \o p.name \o "\"]"
      [] mode = "file" -> p.name

LoadError(p, mode) ==
    IF mode = "file" THEN StrV("cannot open " \o p.name)
    ELSE StrV(ChunkName(p, mode) \o ":1: syntax error")

RaisedError(p, mode) ==
    IF p.located THEN StrV(ChunkName(p, mode) \o ":1: " \o p.err.s) ELSE p.err

RunChunk(p, mode, g) ==
    LET loads == IF mode = "expression" THEN p.exprLoads ELSE p.stmtLoads
        results == IF mode = "expression"
                   THEN (IF p.reads # "" THEN <<g[p.reads]>> ELSE p.exprResults)
                   ELSE p.stmtResults
    IN  IF ~loads
        THEN [ok |-> FALSE, pushed |-> <<LoadError(p, mode)>>, ev |-> <<>>, globals |-> g]
        ELSE IF p.raises
             THEN [ok |-> FALSE, pushed |-> <<RaisedError(p, mode)>>,
                   ev |-> <<Ev("run", "lua", mode)>> \o EffectEvents(p.effects),
                   globals |-> GlobalWrites(p.effects, g)]
             ELSE [ok |-> TRUE, pushed |-> results,
                   ev |-> <<Ev("run", "lua", mode)>> \o EffectEvents(p.effects),
                   globals |-> GlobalWrites(p.effects, g)]

luaL_dostring(p, mode, g) == RunChunk(p, mode, g)

luaL_dofile(f, g) == RunChunk(f, "file", g)

(***************************************************************************)
(* LuaScriptingInstance::LuaScriptingInstance and InitializeLuaState.      *)
(* newstateOk says whether luaL_newstate returned a state.  SetupBindings  *)
(* ends with UpdateMagicVariables, which finds the freshly constructed     *)
(* live and cached snapshots equal and binds nothing.                      *)
(***************************************************************************)
NoSession == [alive |-> FALSE]

\* bindings/common.h VariableWrapper: no wrapper is made before a script asks for one
Wrappers == {1, 2}
NoWrapper == [exists |-> FALSE]
NoVariableWrappers ==
    /\ hostVariable = [name |-> "", type |-> ""]
    /\ wrappers = [w \in Wrappers |-> NoWrapper]

InitializeLuaState(newstateOk) ==
    IF ~newstateOk
    THEN <<Ev("log.error", "session", "Failed to create Lua state"),
           Ev("error", "session", "Failed to create Lua state")>>
    ELSE <<Ev("notify", "session", ReadyForScriptProgramInput)>>

Init ==
    \E newstateOk \in BOOLEAN :
        /\ phase = "running"
        /\ m_luaState = IF newstateOk THEN "L" ELSE "nullptr"
        /\ m_currentBinaryView = NullRef
        /\ m_currentFunction = NullRef
        /\ m_currentBasicBlock = NullRef
        /\ m_currentAddress = 0
        /\ m_selectionBegin = 0
        /\ m_selectionEnd = 0
        /\ m_inputReadyState = ReadyForScriptProgramInput
        /\ m_lastCachedBinaryView = NullRef
        /\ m_lastCachedFunction = NullRef
        /\ m_lastCachedBasicBlock = NullRef
        /\ m_lastCachedAddress = 0
        /\ m_lastCachedSelectionBegin = 0
        /\ m_lastCachedSelectionEnd = 0
        /\ globals = [name \in GlobalNames |-> NilV]
        /\ stack = <<>>
        /\ events = InitializeLuaState(newstateOk)
        /\ call = [op |-> "LuaScriptingInstance", input |-> "", result |-> ""]
        /\ self = 1
        /\ peer = NoSession
        /\ s_storedLogger = IF newstateOk THEN 1 ELSE 0
        /\ NoVariableWrappers

(***************************************************************************)
(* The context setters.                                                    *)
(***************************************************************************)
SetterFrame(op) ==
    /\ phase = "running"
    /\ events' = <<>>
    /\ call' = [op |-> op, input |-> "", result |-> ""]
    /\ UNCHANGED <<phase, m_luaState, m_inputReadyState, cached, globals, stack>>
    /\ UNCHANGED others

SetCurrentBinaryView(view) ==
    /\ SetterFrame("SetCurrentBinaryView")
    /\ m_currentBinaryView' = view
    /\ UNCHANGED <<m_currentFunction, m_currentBasicBlock, m_currentAddress,
                   m_selectionBegin, m_selectionEnd>>

SetCurrentFunction(func) ==
    /\ SetterFrame("SetCurrentFunction")
    /\ m_currentFunction' = func
    /\ UNCHANGED <<m_currentBinaryView, m_currentBasicBlock, m_currentAddress,
                   m_selectionBegin, m_selectionEnd>>

SetCurrentBasicBlock(block) ==
    /\ SetterFrame("SetCurrentBasicBlock")
    /\ m_currentBasicBlock' = block
    /\ UNCHANGED <<m_currentBinaryView, m_currentFunction, m_currentAddress,
                   m_selectionBegin, m_selectionEnd>>

SetCurrentAddress(addr) ==
    /\ SetterFrame("SetCurrentAddress")
    /\ m_currentAddress' = addr
    /\ UNCHANGED <<m_currentBinaryView, m_currentFunction, m_currentBasicBlock,
                   m_selectionBegin, m_selectionEnd>>

\* a selection setter that also moves the current address to the selection
SetCurrentSelection_MovesAddress(begin, end) ==
    /\ SetterFrame("SetCurrentSelection")
    /\ m_selectionBegin' = begin
    /\ m_selectionEnd' = end
    /\ m_currentAddress' = begin
    /\ UNCHANGED <<m_currentBinaryView, m_currentFunction, m_currentBasicBlock>>

SetCurrentSelection(begin, end) ==
    /\ SetterFrame("SetCurrentSelection")
    /\ m_selectionBegin' = begin
    /\ m_selectionEnd' = end
    /\ UNCHANGED <<m_currentBinaryView, m_currentFunction, m_currentBasicBlock,
                   m_currentAddress>>

(***************************************************************************)
(* CancelScriptInput and Stop have empty bodies, CompleteInput returns "". *)
(***************************************************************************)
CancelScriptInput ==
    /\ phase = "running"
    /\ events' = <<>>
    /\ call' = [op |-> "CancelScriptInput", input |-> "", result |-> ""]
    /\ UNCHANGED <<phase, m_luaState, live, m_inputReadyState, cached, globals, stack>>
    /\ UNCHANGED others

CompleteInput(text) ==
    /\ phase = "running"
    /\ events' = <<>>
    /\ call' = [op |-> "CompleteInput", input |-> text, result |-> ""]
    /\ UNCHANGED <<phase, m_luaState, live, m_inputReadyState, cached, globals, stack>>
    /\ UNCHANGED others

\* a Stop that tears the interpreter state down
Stop_ClosesState ==
    /\ phase = "running"
    /\ events' = IF m_luaState # "nullptr" THEN <<Ev("lua_close", "session", m_luaState)>>
                 ELSE <<>>
    /\ m_luaState' = "nullptr"
    /\ globals' = [name \in GlobalNames |-> NilV]
    /\ stack' = <<>>
    /\ call' = [op |-> "Stop", input |-> "", result |-> ""]
    /\ UNCHANGED <<phase, live, m_inputReadyState, cached>>
    /\ UNCHANGED others

Stop ==
    /\ phase = "running"
    /\ events' = <<>>
    /\ call' = [op |-> "Stop", input |-> "", result |-> ""]
    /\ UNCHANGED <<phase, m_luaState, live, m_inputReadyState, cached, globals, stack>>
    /\ UNCHANGED others

\* a cleanup that closes the state and keeps the handle
CleanupLuaState_KeepsHandle ==
    /\ phase \in {"running", "destroyed"}
    /\ phase' = "destroyed"
    /\ IF m_luaState # "nullptr"
       THEN /\ events' = <<Ev("lua_close", "session", m_luaState)>>
            /\ globals' = [name \in GlobalNames |-> NilV]
            /\ stack' = <<>>
       ELSE /\ events' = <<>>
            /\ UNCHANGED <<globals, stack>>
    /\ call' = [op |-> "CleanupLuaState", input |-> "", result |-> ""]
    /\ UNCHANGED <<m_luaState, live, m_inputReadyState, cached>>
    /\ UNCHANGED others

(***************************************************************************)
(* LuaScriptingInstance::CleanupLuaState, as the destructor calls it and   *)
(* as any further call would run (a double close).  lua_close frees the    *)
(* globals and the stack with the state.  The first call ends the session: *)
(* no entry point is called on a destroyed instance.                       *)
(***************************************************************************)
CleanupLuaState ==
    /\ phase \in {"running", "destroyed"}
    /\ phase' = "destroyed"
    /\ IF m_luaState # "nullptr"
       THEN /\ events' = <<Ev("lua_close", "session", m_luaState)>>
            /\ m_luaState' = "nullptr"
            /\ globals' = [name \in GlobalNames |-> NilV]
            /\ stack' = <<>>
       ELSE /\ events' = <<>>
            /\ UNCHANGED <<m_luaState, globals, stack>>
    /\ call' = [op |-> "CleanupLuaState", input |-> "", result |-> ""]
    /\ UNCHANGED <<live, m_inputReadyState, cached>>
    /\ UNCHANGED others

\* a guard placed after the not-ready notification
UninitializedCall_AfterNotify(op, name, fn) ==
    /\ events' = <<Ev("notify", "session", NotReadyForInput),
                   Ev("log.error", "session", fn \o " called with uninitialized Lua state"),
                   Ev("error", "session", "Lua state not initialized")>>
    /\ call' = [op |-> op, input |-> name, result |-> InvalidScriptInput]
    /\ m_inputReadyState' = NotReadyForInput
    /\ UNCHANGED <<phase, m_luaState, live, cached, globals, stack>>

(***************************************************************************)
(* The guard shared by both execution entry points: no interpreter state.  *)
(***************************************************************************)
UninitializedCall(op, name, fn) ==
    /\ events' = <<Ev("log.error", "session", fn \o " called with uninitialized Lua state"),
                   Ev("error", "session", "Lua state not initialized")>>
    /\ call' = [op |-> op, input |-> name, result |-> InvalidScriptInput]
    /\ UNCHANGED <<phase, m_luaState, live, m_inputReadyState, cached, globals, stack>>

\* SetupUtilityFunctions registers dump at construction; no input of the
\* catalog reassigns it, so lua_isfunction finds it
DumpIsFunction == TRUE

(***************************************************************************)
(* ExecuteScriptInput, expression succeeded: print the value on top of the *)
(* stack if there is one and it is not nil, then clear the stack.  st is   *)
(* the stack after the chunk returned.  luaL_tolstring runs outside any    *)
(* protected call: an error it raises reaches the panic handler and the    *)
(* process aborts.                                                         *)
(***************************************************************************)
PrintExpressionValue(st) ==
    IF Len(st) > 0 /\ st[Len(st)].kind # "nil"
    THEN LET top == st[Len(st)]
         IN  IF top.kind = "table"
             THEN IF DumpIsFunction
                  THEN LET d == dump(top, 0)
                       IN  [ev |-> IF d.raised THEN <<>>
                                   ELSE <<Ev("output", "evaluator", d.text \o "\n")>>,
                            stack |-> <<>>, aborted |-> FALSE,
                            result |-> SuccessfulScriptExecution]
                  ELSE [ev |-> <<Ev("output", "evaluator", "<table>\n")>>,
                        stack |-> <<>>, aborted |-> FALSE,
                        result |-> SuccessfulScriptExecution]
             ELSE LET t == luaL_tolstring(top)
                  IN  IF t.raised
                      THEN [ev |-> <<Ev("panic", "lua", "unprotected error in call to Lua API")>>,
                            stack |-> st, aborted |-> TRUE, result |-> "none"]
                      ELSE [ev |-> <<Ev("output", "evaluator", t.text \o "\n")>>,
                            stack |-> <<>>, aborted |-> FALSE,
                            result |-> SuccessfulScriptExecution]
    ELSE [ev |-> <<>>, stack |-> <<>>, aborted |-> FALSE,
          result |-> SuccessfulScriptExecution]

\* a statement failure report that does not skip an empty rendering
StatementFailureReport_AlwaysReports(err) ==
    <<Ev("error", "evaluator", SafeToString(err) \o "\n")>>

(***************************************************************************)
(* ExecuteScriptInput, statement failed: the error value is rendered by    *)
(* SafeToString and reported unless the rendering is empty.                *)
(***************************************************************************)
StatementFailureReport(err) ==
    LET error_msg == SafeToString(err)
    IN  IF error_msg # "" THEN <<Ev("error", "evaluator", error_msg \o "\n")>> ELSE <<>>

(***************************************************************************)
(* The part of ExecuteScriptInput after UpdateMagicVariables and before    *)
(* the reset to ready: expression attempt, printing of its value, fallback *)
(* to the statement form.  Yields the events, the stack and the globals    *)
(* left behind, the result code, and whether an unprotected Lua error      *)
(* ended the process.                                                      *)
(***************************************************************************)
Evaluate(p, g, st) ==
    LET e == luaL_dostring(p, "expression", g)
    IN  IF e.ok
        THEN LET r == PrintExpressionValue(st \o e.pushed)
             IN  [ev |-> e.ev \o r.ev, stack |-> r.stack, aborted |-> r.aborted,
                  result |-> r.result, globals |-> e.globals]
        ELSE LET r == luaL_dostring(p, "statement", e.globals)
             IN  IF r.ok
                 THEN [ev |-> e.ev \o r.ev, stack |-> st \o r.pushed, aborted |-> FALSE,
                       result |-> SuccessfulScriptExecution, globals |-> r.globals]
                 ELSE [ev |-> e.ev \o r.ev \o StatementFailureReport(r.pushed[1]),
                       stack |-> st, aborted |-> FALSE, result |-> InvalidScriptInput,
                       globals |-> r.globals]

(***************************************************************************)
(* LuaScriptingInstance::ExecuteScriptInput                                *)
(***************************************************************************)
ExecuteScriptInput(p, failure) ==
    /\ phase = "running"
    /\ IF m_luaState = "nullptr"
       THEN UninitializedCall("ExecuteScriptInput", p.name, "ExecuteScriptInput")
       ELSE LET r == Evaluate(p, SyncedGlobals(failure), stack)
            IN  /\ Len(r.stack) <= MaxStack
                /\ UpdateMagicVariables(failure)
                /\ globals' = r.globals
                /\ stack' = r.stack
                /\ call' = [op |-> "ExecuteScriptInput", input |-> p.name, result |-> r.result]
                /\ IF r.aborted
                   THEN /\ phase' = "aborted"
                        /\ m_inputReadyState' = NotReadyForInput
                        /\ events' = <<Ev("notify", "session", NotReadyForInput)>>
                                        \o UpdateMagicVariablesLog(failure) \o r.ev
                   ELSE /\ phase' = phase
                        /\ m_inputReadyState' = ReadyForScriptProgramInput
                        /\ events' = <<Ev("notify", "session", NotReadyForInput)>>
                                        \o UpdateMagicVariablesLog(failure) \o r.ev
                                        \o <<Ev("notify", "session", ReadyForScriptProgramInput)>>
                /\ UNCHANGED <<m_luaState, live>>
    /\ UNCHANGED others

\* a file failure reported the way ExecuteScriptInput reports a statement failure
FileFailureReport_SafeToString(f, err) ==
    <<Ev("log.error", "session", "Script execution failed in file " \o f.name),
      Ev("error", "session", SafeToString(err) \o "\n")>>

(***************************************************************************)
(* The part of ExecuteScriptInputFromFilename after the reset to ready:    *)
(* the report of a failed luaL_dofile.                                     *)
(***************************************************************************)
FileFailureReport(f, err) ==
    LET error_msg == lua_tolstring(err)
    IN  IF ~error_msg.null
        THEN <<Ev("log.error", "session",
                  "Script execution failed in file " \o f.name \o ": " \o error_msg.text),
               Ev("error", "session", error_msg.text)>>
        ELSE <<Ev("log.error", "session",
                  "Script execution failed in file " \o f.name \o ": Unknown error"),
               Ev("error", "session", "Script execution failed: Unknown error")>>

(***************************************************************************)
(* LuaScriptingInstance::ExecuteScriptInputFromFilename                    *)
(***************************************************************************)
ExecuteScriptInputFromFilename(f, failure) ==
    /\ phase = "running"
    /\ IF m_luaState = "nullptr"
       THEN UninitializedCall("ExecuteScriptInputFromFilename", f.name,
                              "ExecuteScriptInputFromFilename")
       ELSE LET r == luaL_dofile(f, SyncedGlobals(failure))
            IN  /\ r.ok => Len(stack \o r.pushed) <= MaxStack
                /\ UpdateMagicVariables(failure)
                /\ globals' = r.globals
                /\ m_inputReadyState' = ReadyForScriptProgramInput
                /\ stack' = IF r.ok THEN stack \o r.pushed ELSE stack
                /\ events' = <<Ev("notify", "session", NotReadyForInput)>>
                                \o UpdateMagicVariablesLog(failure) \o r.ev
                                \o <<Ev("notify", "session", ReadyForScriptProgramInput)>>
                                \o (IF r.ok THEN <<>> ELSE FileFailureReport(f, r.pushed[1]))
                /\ call' = [op |-> "ExecuteScriptInputFromFilename", input |-> f.name,
                            result |-> IF r.ok THEN SuccessfulScriptExecution
                                       ELSE InvalidScriptInput]
                /\ UNCHANGED <<phase, m_luaState, live>>
    /\ UNCHANGED others

(***************************************************************************)
(* Specifications.  Spec drives the evaluator with every input and file    *)
(* and every host failure while the context moves through the view and the *)
(* address; SpecContext drives every context setter over its whole domain  *)
(* with a succeeding input, a failing input and a failing file.            *)
(***************************************************************************)
ContextInputs ==
    {p \in Inputs : p.name \in {"1 + 2", "nonexistent_fn()", "current_selection"}}
ContextFiles == {f \in Files : f.name \in {"raise_table.lua"}}

Next ==
    \/ \E addr \in Addresses : SetCurrentAddress(addr)
    \/ \E view \in Views : SetCurrentBinaryView(view)
    \/ \E p \in Inputs, failure \in HostFailures : ExecuteScriptInput(p, failure)
    \/ \E f \in Files, failure \in HostFailures : ExecuteScriptInputFromFilename(f, failure)
    \/ CancelScriptInput
    \/ \E text \in {"cur"} : CompleteInput(text)
    \/ Stop
    \/ CleanupLuaState

Spec == Init /\ [][Next]_vars

NextContext ==
    \/ \E view \in Views : SetCurrentBinaryView(view)
    \/ \E func \in Functions : SetCurrentFunction(func)
    \/ \E block \in BasicBlocks : SetCurrentBasicBlock(block)
    \/ \E addr \in Addresses : SetCurrentAddress(addr)
    \/ \E begin \in SelectionEnds, end \in SelectionEnds : SetCurrentSelection(begin, end)
    \/ \E p \in ContextInputs : ExecuteScriptInput(p, "none")
    \/ \E f \in ContextFiles : ExecuteScriptInputFromFilename(f, "none")

SpecContext == Init /\ [][NextContext]_vars

(***************************************************************************)
(* SafeToString on its own.  SpecSafeToString starts from a session whose  *)
(* interpreter stack holds up to MaxDepth values of every kind and applies *)
(* SafeToString to every position, counted from the bottom or from the     *)
(* top.                                                                    *)
(***************************************************************************)
SampleValues ==
    { StrV("s"), IntV(3), BoolV(TRUE), NilV,
      Val("userdata", "", 0, 0, "plain", <<>>, "none"),
      HexAddress(1),
      Val("userdata", "", 0, 0, "bad", <<>>, "raises"),
      Val("userdata", "", 0, 0, "odd", <<>>, "nonstring"),
      TableV(<<>>), FuncV,
      Val("thread", "", 0, 0, "", <<>>, "none") }

SampleStacks == UNION {[1..d -> SampleValues] : d \in 1..MaxDepth}

InitSafeToString ==
    /\ phase = "running"
    /\ m_luaState = "L"
    /\ m_currentBinaryView = NullRef
    /\ m_currentFunction = NullRef
    /\ m_currentBasicBlock = NullRef
    /\ m_currentAddress = 0
    /\ m_selectionBegin = 0
    /\ m_selectionEnd = 0
    /\ m_inputReadyState = ReadyForScriptProgramInput
    /\ m_lastCachedBinaryView = NullRef
    /\ m_lastCachedFunction = NullRef
    /\ m_lastCachedBasicBlock = NullRef
    /\ m_lastCachedAddress = 0
    /\ m_lastCachedSelectionBegin = 0
    /\ m_lastCachedSelectionEnd = 0
    /\ globals = [name \in GlobalNames |-> NilV]
    /\ stack \in SampleStacks
    /\ events = InitializeLuaState(TRUE)
    /\ call = [op |-> "LuaScriptingInstance", input |-> "", result |-> ""]
    /\ self = 1
    /\ peer = NoSession
    /\ s_storedLogger = 1
    /\ NoVariableWrappers

ApplySafeToString(index, checkstackOk, foreign) ==
    /\ phase = "running"
    /\ m_luaState = "L"
    /\ AbsIndex(stack, index) \in 1..Len(stack)
    /\ LET r == SafeToStringAt(stack, index, checkstackOk, foreign)
       IN  /\ stack' = r.stack
           /\ phase' = IF r.crashed THEN "aborted" ELSE phase
           /\ call' = [op |-> "SafeToString", input |-> ToString(index),
                       result |-> r.text]
    /\ events' = <<>>
    /\ UNCHANGED <<m_luaState, live, m_inputReadyState, cached, globals>>
    /\ UNCHANGED others

NextSafeToString ==
    \E index \in (1..MaxDepth) \cup {-d : d \in 1..MaxDepth},
       checkstackOk \in BOOLEAN, foreign \in ForeignOutcomes :
        ApplySafeToString(index, checkstackOk, foreign)

SpecSafeToString == InitSafeToString /\ [][NextSafeToString]_vars

(***************************************************************************)
(* An execution taken apart.  The class takes no lock and copies no        *)
(* snapshot: HasContextChanged, UpdateMagicVariableValues and              *)
(* UpdateContextCache each read the live fields again, and the setters     *)
(* assign them directly.  SpecInterleaved runs ExecuteScriptInput in the   *)
(* steps between which a setter call made by the host from another thread  *)
(* can land:                                                               *)
(*   BeginExecution    lines 195-205 and the comparison at line 117        *)
(*   RebindInFlight    line 119                                            *)
(*   CommitInFlight    line 120                                            *)
(*   FinishExecution   lines 209-273                                       *)
(* phase is the position of the execution in flight, call its record.      *)
(***************************************************************************)
InFlight == {"compared", "rebound", "synced"}

BeginExecution(p) ==
    /\ phase = "running"
    /\ m_luaState = "L"
    /\ m_inputReadyState' = NotReadyForInput
    /\ call' = [op |-> "ExecuteScriptInput", input |-> p.name, result |-> ""]
    /\ IF HasContextChanged
       THEN /\ phase' = "compared"
            /\ events' = <<Ev("notify", "session", NotReadyForInput)>>
       ELSE /\ phase' = "synced"
            /\ events' = <<Ev("notify", "session", NotReadyForInput)>>
                            \o UpdateMagicVariablesLog("none")
    /\ UNCHANGED <<m_luaState, live, cached, globals, stack>>
    /\ UNCHANGED others

RebindInFlight ==
    /\ phase = "compared"
    /\ phase' = "rebound"
    /\ globals' = UpdateMagicVariableValues(globals, "none")
    /\ events' = events \o <<[ch |-> "sync", by |-> "synchronizer", text |-> "rebind"]>>
    /\ UNCHANGED <<m_luaState, live, m_inputReadyState, cached, stack, call>>
    /\ UNCHANGED others

CommitInFlight ==
    /\ phase = "rebound"
    /\ phase' = "synced"
    /\ UpdateContextCache
    /\ UNCHANGED <<m_luaState, live, m_inputReadyState, globals, stack, events, call>>
    /\ UNCHANGED others

FinishExecution ==
    /\ phase = "synced"
    /\ LET p == CHOOSE q \in Inputs : q.name = call.input
           r == Evaluate(p, globals, stack)
       IN  /\ Len(r.stack) <= MaxStack
           /\ globals' = r.globals
           /\ stack' = r.stack
           /\ call' = [call EXCEPT !.result = r.result]
           /\ IF r.aborted
              THEN /\ phase' = "aborted"
                   /\ m_inputReadyState' = NotReadyForInput
                   /\ events' = events \o r.ev
              ELSE /\ phase' = "running"
                   /\ m_inputReadyState' = ReadyForScriptProgramInput
                   /\ events' = events \o r.ev
                                   \o <<Ev("notify", "session", ReadyForScriptProgramInput)>>
    /\ UNCHANGED <<m_luaState, live, cached>>
    /\ UNCHANGED others

\* a setter call of the host that lands while the execution is in flight
SetCurrentAddressInFlight(addr) ==
    /\ phase \in InFlight
    /\ m_currentAddress' = addr
    /\ UNCHANGED <<phase, m_luaState, m_currentBinaryView, m_currentFunction,
                   m_currentBasicBlock, m_selectionBegin, m_selectionEnd,
                   m_inputReadyState, cached, globals, stack, events, call>>
    /\ UNCHANGED others

SetCurrentBinaryViewInFlight(view) ==
    /\ phase \in InFlight
    /\ m_currentBinaryView' = view
    /\ UNCHANGED <<phase, m_luaState, m_currentFunction, m_currentBasicBlock,
                   m_currentAddress, m_selectionBegin, m_selectionEnd,
                   m_inputReadyState, cached, globals, stack, events, call>>
    /\ UNCHANGED others

InterleavedInputs == {p \in Inputs : p.name \in {"1 + 2", "current_address"}}

NextInterleaved ==
    \/ \E addr \in Addresses : SetCurrentAddress(addr)
    \/ \E view \in Views : SetCurrentBinaryView(view)
    \/ \E p \in InterleavedInputs : BeginExecution(p)
    \/ RebindInFlight
    \/ CommitInFlight
    \/ FinishExecution
    \/ \E addr \in Addresses : SetCurrentAddressInFlight(addr)
    \/ \E view \in Views : SetCurrentBinaryViewInFlight(view)

SpecInterleaved == Init /\ [][NextInterleaved]_vars

(***************************************************************************)
(* Two sessions.  LuaScriptingProvider::CreateNewInstance constructs a new *)
(* LuaScriptingInstance each time the host asks for one; every field of    *)
(* luascriptingprovider.h 26-44 is a member of the instance and the        *)
(* interpreter is created by the constructor.  The one object shared is    *)
(* the static s_storedLogger of bindings/common.cpp, which                 *)
(* RegisterAllBindings overwrites with the logger of the instance under    *)
(* construction.  The variables of the module hold the session the host    *)
(* is calling into (self); peer holds the other one.                       *)
(***************************************************************************)
ThisSession ==
    [alive |-> TRUE, id |-> self, phase |-> phase, m_luaState |-> m_luaState,
     live |-> live, m_inputReadyState |-> m_inputReadyState, cached |-> cached,
     globals |-> globals, stack |-> stack, events |-> events, call |-> call]

\* as if the interpreter were one static state that every constructor opens anew
CreateNewInstance_OneInterpreter(newstateOk) ==
    /\ phase \in {"running", "destroyed"}
    /\ peer = NoSession
    /\ self = 1
    /\ peer' = [ThisSession EXCEPT !.globals = [name \in GlobalNames |-> NilV],
                                   !.stack = <<>>]
    /\ self' = 2
    /\ s_storedLogger' = IF newstateOk THEN 2 ELSE s_storedLogger
    /\ phase' = "running"
    /\ m_luaState' = IF newstateOk THEN "L" ELSE "nullptr"
    /\ m_currentBinaryView' = NullRef
    /\ m_currentFunction' = NullRef
    /\ m_currentBasicBlock' = NullRef
    /\ m_currentAddress' = 0
    /\ m_selectionBegin' = 0
    /\ m_selectionEnd' = 0
    /\ m_inputReadyState' = ReadyForScriptProgramInput
    /\ m_lastCachedBinaryView' = NullRef
    /\ m_lastCachedFunction' = NullRef
    /\ m_lastCachedBasicBlock' = NullRef
    /\ m_lastCachedAddress' = 0
    /\ m_lastCachedSelectionBegin' = 0
    /\ m_lastCachedSelectionEnd' = 0
    /\ globals' = [name \in GlobalNames |-> NilV]
    /\ stack' = <<>>
    /\ events' = InitializeLuaState(newstateOk)
    /\ call' = [op |-> "LuaScriptingInstance", input |-> "", result |-> ""]
    /\ UNCHANGED <<hostVariable, wrappers>>

CreateNewInstance(newstateOk) ==
    /\ phase \in {"running", "destroyed"}
    /\ peer = NoSession
    /\ self = 1
    /\ peer' = ThisSession
    /\ self' = 2
    /\ s_storedLogger' = IF newstateOk THEN 2 ELSE s_storedLogger
    /\ phase' = "running"
    /\ m_luaState' = IF newstateOk THEN "L" ELSE "nullptr"
    /\ m_currentBinaryView' = NullRef
    /\ m_currentFunction' = NullRef
    /\ m_currentBasicBlock' = NullRef
    /\ m_currentAddress' = 0
    /\ m_selectionBegin' = 0
    /\ m_selectionEnd' = 0
    /\ m_inputReadyState' = ReadyForScriptProgramInput
    /\ m_lastCachedBinaryView' = NullRef
    /\ m_lastCachedFunction' = NullRef
    /\ m_lastCachedBasicBlock' = NullRef
    /\ m_lastCachedAddress' = 0
    /\ m_lastCachedSelectionBegin' = 0
    /\ m_lastCachedSelectionEnd' = 0
    /\ globals' = [name \in GlobalNames |-> NilV]
    /\ stack' = <<>>
    /\ events' = InitializeLuaState(newstateOk)
    /\ call' = [op |-> "LuaScriptingInstance", input |-> "", result |-> ""]
    /\ UNCHANGED <<hostVariable, wrappers>>

\* the host turns to its other session: no code of the plugin runs
SwitchSession ==
    /\ peer # NoSession
    /\ phase # "aborted"
    /\ peer' = ThisSession
    /\ self' = peer.id
    /\ phase' = peer.phase
    /\ m_luaState' = peer.m_luaState
    /\ m_currentBinaryView' = peer.live[1]
    /\ m_currentFunction' = peer.live[2]
    /\ m_currentBasicBlock' = peer.live[3]
    /\ m_currentAddress' = peer.live[4]
    /\ m_selectionBegin' = peer.live[5]
    /\ m_selectionEnd' = peer.live[6]
    /\ m_inputReadyState' = peer.m_inputReadyState
    /\ m_lastCachedBinaryView' = peer.cached[1]
    /\ m_lastCachedFunction' = peer.cached[2]
    /\ m_lastCachedBasicBlock' = peer.cached[3]
    /\ m_lastCachedAddress' = peer.cached[4]
    /\ m_lastCachedSelectionBegin' = peer.cached[5]
    /\ m_lastCachedSelectionEnd' = peer.cached[6]
    /\ globals' = peer.globals
    /\ stack' = peer.stack
    /\ events' = peer.events
    /\ call' = peer.call
    /\ UNCHANGED <<s_storedLogger, hostVariable, wrappers>>

SessionInputs == {p \in Inputs : p.name \in {"total = 7", "current_address"}}

SessionFiles == {f \in Files : f.name = "raise_string.lua"}

NextSessions ==
    \/ \E newstateOk \in BOOLEAN : CreateNewInstance(newstateOk)
    \/ SwitchSession
    \/ \E addr \in Addresses : SetCurrentAddress(addr)
    \/ \E p \in SessionInputs : ExecuteScriptInput(p, "none")
    \/ \E f \in SessionFiles : ExecuteScriptInputFromFilename(f, "none")
    \/ CleanupLuaState

SpecSessions == Init /\ [][NextSessions]_vars

(***************************************************************************)
(* VariableWrapper (bindings/common.h 126-148, bindings/variable.cpp).     *)
(* Function:variables() and its kin make a new wrapper of a variable each  *)
(* time they are called; sol2 copies a wrapper with the copy constructor.  *)
(* The host function holds the name and the type of the variable: name ""  *)
(* is a variable the user has not named, type "" one without a type.       *)
(***************************************************************************)
DefaultName == "var_8"

VariableNames == {"x", "y"}

TypeStrings == {"int", "long long", "struct foo"}

GetVariableNameOrDefault(h) == IF h.name = "" THEN DefaultName ELSE h.name

\* the chain of comparisons of set_type: an unknown type string is int32_t
ParseType(typeStr) ==
    CASE typeStr \in {"int32_t", "int"} -> "int32_t"
      [] typeStr \in {"int64_t", "long long"} -> "int64_t"
      [] OTHER -> "int32_t"

VariableWrapper ==
    [exists |-> TRUE, cachedName |-> "", cachedTypeName |-> "",
     nameResolved |-> FALSE, typeResolved |-> FALSE]

ResolveName(v, h) ==
    IF v.nameResolved THEN v
    ELSE [v EXCEPT !.cachedName = IF GetVariableNameOrDefault(h) = "" THEN "local_8"
                                  ELSE GetVariableNameOrDefault(h),
                   !.nameResolved = TRUE]

ResolveType(v, h) ==
    IF v.typeResolved THEN v
    ELSE LET fetched == IF h.type # "" THEN h.type ELSE v.cachedTypeName
         IN  [v EXCEPT !.cachedTypeName = IF fetched = "" THEN "<unknown>" ELSE fetched,
                       !.typeResolved = TRUE]

VariableFrame(op, w, result) ==
    /\ phase = "running"
    /\ m_luaState = "L"
    /\ events' = <<>>
    /\ call' = [op |-> op, input |-> ToString(w), result |-> result]
    /\ UNCHANGED <<phase, m_luaState, live, m_inputReadyState, cached, globals, stack,
                   self, peer, s_storedLogger>>

\* Function:variables(): a wrapper is constructed for the variable
NewVariableWrapper(w) ==
    /\ wrappers' = [wrappers EXCEPT ![w] = VariableWrapper]
    /\ UNCHANGED hostVariable
    /\ VariableFrame("VariableWrapper", w, "")

\* the copy constructor: the cache and its flags are copied with the variable
CopyVariableWrapper(from, to) ==
    /\ from # to
    /\ wrappers[from].exists
    /\ wrappers' = [wrappers EXCEPT ![to] = wrappers[from]]
    /\ UNCHANGED hostVariable
    /\ VariableFrame("VariableWrapper(copy)", to, "")

GetName(w) ==
    /\ wrappers[w].exists
    /\ wrappers' = [wrappers EXCEPT ![w] = ResolveName(wrappers[w], hostVariable)]
    /\ UNCHANGED hostVariable
    /\ VariableFrame("GetName", w, ResolveName(wrappers[w], hostVariable).cachedName)

GetTypeName(w) ==
    /\ wrappers[w].exists
    /\ wrappers' = [wrappers EXCEPT ![w] = ResolveType(wrappers[w], hostVariable)]
    /\ UNCHANGED hostVariable
    /\ VariableFrame("GetTypeName", w, ResolveType(wrappers[w], hostVariable).cachedTypeName)

set_name(w, name) ==
    /\ wrappers[w].exists
    /\ hostVariable' = [hostVariable EXCEPT !.name = name]
    /\ wrappers' = [wrappers EXCEPT ![w].nameResolved = FALSE, ![w].typeResolved = FALSE]
    /\ VariableFrame("set_name", w, "true")

set_type(w, typeStr) ==
    /\ wrappers[w].exists
    /\ LET v == ResolveName(wrappers[w], hostVariable)
       IN  /\ hostVariable' = [name |-> v.cachedName, type |-> ParseType(typeStr)]
           /\ wrappers' = [wrappers EXCEPT ![w] = [v EXCEPT !.nameResolved = FALSE,
                                                            !.typeResolved = FALSE]]
    /\ VariableFrame("set_type", w, "true")

InitVariable ==
    /\ phase = "running"
    /\ m_luaState = "L"
    /\ m_currentBinaryView = NullRef
    /\ m_currentFunction = NullRef
    /\ m_currentBasicBlock = NullRef
    /\ m_currentAddress = 0
    /\ m_selectionBegin = 0
    /\ m_selectionEnd = 0
    /\ m_inputReadyState = ReadyForScriptProgramInput
    /\ m_lastCachedBinaryView = NullRef
    /\ m_lastCachedFunction = NullRef
    /\ m_lastCachedBasicBlock = NullRef
    /\ m_lastCachedAddress = 0
    /\ m_lastCachedSelectionBegin = 0
    /\ m_lastCachedSelectionEnd = 0
    /\ globals = [name \in GlobalNames |-> NilV]
    /\ stack = <<>>
    /\ events = InitializeLuaState(TRUE)
    /\ call = [op |-> "LuaScriptingInstance", input |-> "", result |-> ""]
    /\ self = 1
    /\ peer = NoSession
    /\ s_storedLogger = 1
    /\ hostVariable \in [name : {"", "x"}, type : {"", "int64_t"}]
    /\ wrappers = [w \in Wrappers |-> NoWrapper]

NextVariable ==
    \/ \E w \in Wrappers : NewVariableWrapper(w)
    \/ \E from \in Wrappers, to \in Wrappers : CopyVariableWrapper(from, to)
    \/ \E w \in Wrappers : GetName(w)
    \/ \E w \in Wrappers : GetTypeName(w)
    \/ \E w \in Wrappers, name \in VariableNames : set_name(w, name)
    \/ \E w \in Wrappers, typeStr \in TypeStrings : set_type(w, typeStr)

SpecVariable == InitVariable /\ [][NextVariable]_vars

(***************************************************************************)
(* Vocabulary of the properties.                                           *)
(***************************************************************************)
ExecOps == {"ExecuteScriptInput", "ExecuteScriptInputFromFilename"}
SetterOps == {"SetCurrentBinaryView", "SetCurrentFunction", "SetCurrentBasicBlock",
              "SetCurrentAddress", "SetCurrentSelection"}

\* the most recent call was an execution on a session with an interpreter state
ExecutedInitialized == call.op \in ExecOps /\ m_luaState = "L"

\* the events of the most recent call on one channel, and their texts
OnChannel(ch) == SelectSeq(events, LAMBDA e : e.ch = ch)
TextsOf(seq) == [i \in 1..Len(seq) |-> seq[i].text]
By(seq, who) == SelectSeq(seq, LAMBDA e : e.by = who)

\* positions in the trace of the most recent call
NotifyAt(state) == {i \in 1..Len(events) : events[i].ch = "notify" /\ events[i].text = state}
RunAt == {i \in 1..Len(events) : events[i].ch = "run"}

\* the input or file of the most recent execution
InputOfCall == CHOOSE p \in Inputs : p.name = call.input
FileOfCall == CHOOSE f \in Files : f.name = call.input

(***************************************************************************)
(* C1.  For every execution on an initialized session the not-ready        *)
(* notification is emitted before any script code runs, the ready          *)
(* notification is emitted exactly once and after all script code, on      *)
(* every exit path, and the readiness flag is ready once the call ended.   *)
(* The code has no guaranteed release: an error raised by luaL_tolstring   *)
(* while the expression value is printed leaves the call without the ready *)
(* notification.                                                           *)
(***************************************************************************)
C1_ReadinessBracketsExecution ==
    ExecutedInitialized =>
        /\ m_inputReadyState = ReadyForScriptProgramInput
        /\ Cardinality(NotifyAt(ReadyForScriptProgramInput)) = 1
        /\ \E i \in NotifyAt(NotReadyForInput) : \A j \in RunAt : i < j
        /\ \A i \in NotifyAt(ReadyForScriptProgramInput) : \A j \in RunAt : j < i

(***************************************************************************)
(* C2.  For every input that fails both as an expression and as a          *)
(* statement sequence, ExecuteScriptInput returns InvalidScriptInput and   *)
(* exactly one message appears on the error channel during the call: the   *)
(* statement-mode error rendered by SafeToString.                          *)
(* As stated this fails: an error value that renders as the empty string   *)
(* is not reported at all, and a script's own error() calls add messages.  *)
(***************************************************************************)
FailsAsExpression(p) == ~p.exprLoads \/ p.raises
FailsAsStatement(p) == ~p.stmtLoads \/ p.raises

\* the error value the statement-mode attempt leaves, and its rendering
StatementError(p) ==
    IF ~p.stmtLoads THEN StrV("[string \"" \o p.name \o "\"]:1: syntax error")
    ELSE IF p.located THEN StrV("[string \"" \o p.name \o "\"]:1: " \o p.err.s)
    ELSE p.err

ExpressionError(p) ==
    IF ~p.exprLoads THEN StrV("[string \"return " \o p.name \o "\"]:1: syntax error")
    ELSE IF p.located THEN StrV("[string \"return " \o p.name \o "\"]:1: " \o p.err.s)
    ELSE p.err

Rendered(v) ==
    CASE v.kind = "string" -> v.s
      [] v.kind = "table" -> "<table>"
      [] OTHER -> "?"

FailedBoth ==
    /\ call.op = "ExecuteScriptInput"
    /\ m_luaState = "L"
    /\ FailsAsExpression(InputOfCall)
    /\ FailsAsStatement(InputOfCall)

ValueOf(p) ==
    IF p.reads # "" THEN <<globals[p.reads]>> ELSE p.exprResults

ValidExpressionEvaluated ==
    /\ call.op = "ExecuteScriptInput"
    /\ m_luaState = "L"
    /\ InputOfCall.exprLoads
    /\ ~InputOfCall.raises
    /\ \A i \in 1..Len(ValueOf(InputOfCall)) :
            ValueOf(InputOfCall)[i].hook \notin {"raises", "nonstring"}

ExpectedRendering(vs) ==
    IF vs = <<>> \/ vs[Len(vs)].kind = "nil" THEN <<>>
    ELSE IF vs[Len(vs)].kind = "table" THEN <<dump(vs[Len(vs)], 0).text \o "\n">>
    ELSE <<luaL_tolstring(vs[Len(vs)]).text \o "\n">>

C3_ExpressionValuePrinted ==
    ValidExpressionEvaluated =>
        /\ call.result = SuccessfulScriptExecution
        /\ TextsOf(By(OnChannel("output"), "evaluator")) = ExpectedRendering(ValueOf(InputOfCall))

(***************************************************************************)
(* C4.  For every statement sequence S that is not a valid expression and  *)
(* runs without error, ExecuteScriptInput(S) returns                       *)
(* SuccessfulScriptExecution, the evaluator emits nothing on the output or *)
(* error channel, and the output channel carries exactly one message per   *)
(* print call of S, in call order.                                         *)
(***************************************************************************)
RECURSIVE PrintedLines(_)
PrintedLines(effects) ==
    IF effects = <<>> THEN <<>>
    ELSE (IF Head(effects).fn = "print" THEN <<Head(effects).arg \o "\n">> ELSE <<>>)
            \o PrintedLines(Tail(effects))

StatementOnlyRan ==
    /\ call.op = "ExecuteScriptInput"
    /\ m_luaState = "L"
    /\ ~InputOfCall.exprLoads
    /\ InputOfCall.stmtLoads
    /\ ~InputOfCall.raises

C4_StatementNotAutoPrinted ==
    StatementOnlyRan =>
        /\ call.result = SuccessfulScriptExecution
        /\ By(OnChannel("output"), "evaluator") = <<>>
        /\ By(OnChannel("error"), "evaluator") = <<>>
        /\ TextsOf(OnChannel("output")) = PrintedLines(InputOfCall.effects)

\* a statement sequence with two print calls has just run on a stack that
\* still holds a value of an earlier execution
C4_Witness ==
    /\ StatementOnlyRan
    /\ Len(PrintedLines(InputOfCall.effects)) = 2
    /\ stack # <<>>

(***************************************************************************)
(* C5.  After a call to any context setter HasContextChanged() is true     *)
(* until the next successful execution, and false right after that         *)
(* execution returns.                                                      *)
(* As stated this fails: a setter called with the value the cache already  *)
(* holds leaves HasContextChanged() false.                                 *)
(***************************************************************************)
C5_Original ==
    /\ call.op \in SetterOps => HasContextChanged
    /\ (ExecutedInitialized /\ call.result = SuccessfulScriptExecution) => ~HasContextChanged

\* C5 as amended: a setter call that leaves some live field different from
\* its cached field makes HasContextChanged() true; once true it becomes
\* false only by an execution on an initialized session (successful or
\* failed) or by setter calls that make every live field equal its cached
\* field again; it is false right after every execution on an initialized
\* session.
C5_Amended ==
    /\ [](ExecutedInitialized => ~HasContextChanged)
    /\ [][ /\ (call'.op \in SetterOps /\ live' # cached) => HasContextChanged'
           /\ (HasContextChanged /\ ~HasContextChanged') =>
                    \/ call'.op \in ExecOps /\ m_luaState = "L"
                    \/ call'.op \in SetterOps /\ live' = cached ]_vars

\* a failed execution has just committed a snapshot that setters had changed
C5_Witness ==
    /\ ExecutedInitialized
    /\ call.result = InvalidScriptInput
    /\ m_lastCachedAddress # 0
    /\ m_lastCachedBinaryView # NullRef
    /\ ~HasContextChanged

(***************************************************************************)
(* C6.  HasContextChanged() depends only on the current values of the six  *)
(* live and six cached fields: a setter call that repeats the value its    *)
(* field already holds leaves the result unchanged, and a setter call      *)
(* after which every live field equals the cached value it had before the  *)
(* call leaves the result false.                                           *)
(***************************************************************************)
C6_ValueEquality ==
    [][ call'.op \in SetterOps =>
            /\ live' = live => (HasContextChanged' <=> HasContextChanged)
            /\ live' = cached => ~HasContextChanged' ]_vars

\* SetCurrentAddress was called with the address the cache holds, which is
\* not the constructor's, and nothing else differs
C6_Witness ==
    /\ call.op = "SetCurrentAddress"
    /\ m_currentAddress = m_lastCachedAddress
    /\ m_currentAddress # m_lastCachedSelectionBegin
    /\ ~HasContextChanged

(***************************************************************************)
(* C7.  After every execution on an initialized session, the first one on  *)
(* a fresh session included, every magic-variable name is bound to the     *)
(* value derived from the live snapshot.                                   *)
(* The constructor makes the live and the cached snapshot equal, so the    *)
(* synchronizer finds no change and binds nothing until a setter has       *)
(* changed a field.                                                        *)
(***************************************************************************)
C7_AllMagicVariablesBound ==
    ExecutedInitialized =>
        \A name \in MagicNames :
            globals[name] = MagicValue(name, m_currentBinaryView, m_currentFunction,
                                       m_currentBasicBlock, m_currentAddress,
                                       m_selectionBegin, m_selectionEnd)

(***************************************************************************)
(* C8.  A context setter changes only its own live field(s): the cached    *)
(* fields, the readiness flag, the interpreter state, the stack and every  *)
(* magic-variable binding are unchanged, and the call emits nothing.       *)
(***************************************************************************)
OwnFields(op) ==
    CASE op = "SetCurrentBinaryView" -> {1}
      [] op = "SetCurrentFunction" -> {2}
      [] op = "SetCurrentBasicBlock" -> {3}
      [] op = "SetCurrentAddress" -> {4}
      [] op = "SetCurrentSelection" -> {5, 6}
      [] OTHER -> {}

C8_SetterFrame ==
    [][ call'.op \in SetterOps =>
            /\ \A i \in (1..6) \ OwnFields(call'.op) : live'[i] = live[i]
            /\ cached' = cached
            /\ m_inputReadyState' = m_inputReadyState
            /\ m_luaState' = m_luaState
            /\ globals' = globals
            /\ stack' = stack
            /\ events' = <<>> ]_vars

\* SetCurrentSelection was called after the magic variables had been bound
C8_Witness ==
    /\ call.op = "SetCurrentSelection"
    /\ m_selectionEnd # m_lastCachedSelectionEnd
    /\ globals["current_address"] # NilV
    /\ m_luaState = "L"

(***************************************************************************)
(* C9.  If the interpreter state cannot be created at construction, the    *)
(* failure is reported once on the error channel and the session is inert: *)
(* every later execution returns InvalidScriptInput, runs no script, emits *)
(* no readiness notification and changes neither snapshot.                 *)
(***************************************************************************)
C9_InertSession ==
    /\ []((m_luaState = "nullptr" /\ call.op = "LuaScriptingInstance") =>
            /\ TextsOf(OnChannel("error")) = <<"Failed to create Lua state">>
            /\ OnChannel("notify") = <<>>)
    /\ [][ (m_luaState = "nullptr" /\ call'.op \in ExecOps) =>
            /\ call'.result = InvalidScriptInput
            /\ OnChannel("run")' = <<>>
            /\ OnChannel("notify")' = <<>>
            /\ live' = live
            /\ cached' = cached
            /\ m_luaState' = "nullptr" ]_vars

\* a file execution was refused on a session without interpreter state whose
\* live snapshot the host had already moved
C9_Witness ==
    /\ m_luaState = "nullptr"
    /\ call.op = "ExecuteScriptInputFromFilename"
    /\ call.result = InvalidScriptInput
    /\ m_currentAddress # 0

(***************************************************************************)
(* C10.  ExecuteScriptInputFromFilename runs the file exactly once as a    *)
(* statement sequence, with no expression-mode attempt; on failure it      *)
(* emits exactly one error-channel message carrying the interpreter's raw  *)
(* error text and returns InvalidScriptInput; on success it returns        *)
(* SuccessfulScriptExecution and emits nothing of its own.                 *)
(* As stated this fails: a file that does not load is not run, and an      *)
(* error value that is neither string nor number has no text and is        *)
(* reported as "Script execution failed: Unknown error".                   *)
(***************************************************************************)
FileExecuted == call.op = "ExecuteScriptInputFromFilename" /\ m_luaState = "L"

FileFails(f) == ~f.stmtLoads \/ f.raises

\* the error value a failing file leaves
FileError(f) ==
    IF ~f.stmtLoads THEN StrV("cannot open " \o f.name)
    ELSE IF f.located THEN StrV(f.name \o ":1: " \o f.err.s)
    ELSE f.err

OwnChannelEvents ==
    SelectSeq(events, LAMBDA e : e.ch \in {"output", "error", "warning"}
                                    /\ e.by \in {"session", "evaluator"})

C10_Original ==
    FileExecuted =>
        /\ Cardinality(RunAt) = 1
        /\ \A i \in RunAt : events[i].text = "file"
        /\ call.result = (IF FileFails(FileOfCall) THEN InvalidScriptInput
                          ELSE SuccessfulScriptExecution)
        /\ FileFails(FileOfCall) =>
                /\ FileError(FileOfCall).kind = "string"
                /\ OwnChannelEvents = <<Ev("error", "session", FileError(FileOfCall).s)>>
        /\ ~FileFails(FileOfCall) => OwnChannelEvents = <<>>

\* C10 as amended: no expression-mode attempt; the file runs once if it
\* loads and not at all otherwise; on failure exactly one error-channel
\* message of the call's own: the raw error text if the error value is a
\* string or a number, "Script execution failed: Unknown error" otherwise.
C10_Amended ==
    FileExecuted =>
        /\ Cardinality(RunAt) = (IF FileOfCall.stmtLoads THEN 1 ELSE 0)
        /\ \A i \in RunAt : events[i].text = "file"
        /\ call.result = (IF FileFails(FileOfCall) THEN InvalidScriptInput
                          ELSE SuccessfulScriptExecution)
        /\ FileFails(FileOfCall) =>
                OwnChannelEvents =
                    <<Ev("error", "session",
                         CASE FileError(FileOfCall).kind = "string" -> FileError(FileOfCall).s
                           [] FileError(FileOfCall).kind = "number" ->
                                ToString(FileError(FileOfCall).n)
                           [] OTHER -> "Script execution failed: Unknown error")>>
        /\ ~FileFails(FileOfCall) => OwnChannelEvents = <<>>

\* a file has just failed with an error value that is a table
C10_Witness ==
    /\ FileExecuted
    /\ call.input = "raise_table.lua"
    /\ call.result = InvalidScriptInput

(***************************************************************************)
(* C11.  When the value of a successfully evaluated expression has a       *)
(* string-conversion hook that fails, the failure stays inside             *)
(* ExecuteScriptInput: the process goes on, the call returns a result, the *)
(* readiness flag is ready again and the ready notification was emitted.   *)
(* The code converts the value with luaL_tolstring outside any protected   *)
(* call, so the hook's error reaches the interpreter's panic path.         *)
(***************************************************************************)
HookFailsOnValue ==
    /\ call.op = "ExecuteScriptInput"
    /\ m_luaState = "L"
    /\ InputOfCall.exprLoads
    /\ ~InputOfCall.raises
    /\ ValueOf(InputOfCall) # <<>>
    /\ ValueOf(InputOfCall)[Len(ValueOf(InputOfCall))].hook \in {"raises", "nonstring"}

C11_HookFailureContained ==
    HookFailsOnValue =>
        /\ phase = "running"
        /\ call.result \in {SuccessfulScriptExecution, InvalidScriptInput}
        /\ m_inputReadyState = ReadyForScriptProgramInput
        /\ NotifyAt(ReadyForScriptProgramInput) # {}

(***************************************************************************)
(* C12.  SafeToString returns a text and leaves the interpreter stack at   *)
(* the height it had on entry, for every kind of value (string, number,    *)
(* boolean, nil, userdata with or without a __tostring hook, table,        *)
(* function, any other) and for both outcomes of the hook call (success or *)
(* error): every call that returns leaves the stack as it found it, and a  *)
(* call does not return only when a usertype hook, handed a foreign        *)
(* argument in a build without safeties, never returns from lua_pcall.     *)
(***************************************************************************)
SafeToStringReturned == call'.op = "SafeToString" /\ phase' = "running"

Channels == {"output", "error", "warning"}

SeverityOf(ch) ==
    CASE ch = "output" -> "log.info"
      [] ch = "error" -> "log.error"
      [] ch = "warning" -> "log.warn"

Producers == {"script", "evaluator", "session"}

C13_ChannelMessagesLogged ==
    ExecutedInitialized =>
        \A ch \in Channels, who \in Producers :
            Len(By(OnChannel(ch), who)) <= Len(By(OnChannel(SeverityOf(ch)), who))

(***************************************************************************)
(* C14.  The interpreter state is closed exactly once per session:         *)
(* CleanupLuaState closes a state that is there and nulls the handle, so a *)
(* further CleanupLuaState call finds no state and closes nothing; no      *)
(* other entry point closes the state.                                     *)
(***************************************************************************)
Closes(trace) == Cardinality({i \in 1..Len(trace) : trace[i].ch = "lua_close"})

C14_ClosedExactlyOnce ==
    [][/\ call'.op = "CleanupLuaState" =>
            /\ m_luaState' = "nullptr"
            /\ Closes(events') = IF m_luaState = "L" THEN 1 ELSE 0
       /\ (call'.op = "CleanupLuaState" /\ call.op = "CleanupLuaState") =>
            Closes(events') = 0
       /\ call'.op # "CleanupLuaState" => Closes(events') = 0]_vars

\* a second CleanupLuaState call on a session whose state had been in use
C14_Witness ==
    /\ call.op = "CleanupLuaState"
    /\ Closes(events) = 0
    /\ m_luaState = "nullptr"
    /\ m_lastCachedBinaryView = "view1"

(***************************************************************************)
(* C15.  Between construction and destruction the interpreter state is     *)
(* never created again, closed or replaced: no setter, ExecuteScriptInput, *)
(* ExecuteScriptInputFromFilename, CancelScriptInput, CompleteInput or     *)
(* Stop changes m_luaState, so a global defined by one execution is        *)
(* visible to every later execution of the session: it keeps its value     *)
(* across every such call, and an execution that reads it gets the value.  *)
(***************************************************************************)
SessionOps ==
    SetterOps \cup ExecOps \cup {"CancelScriptInput", "CompleteInput", "Stop"}

C15_StateKeptForSession ==
    [][/\ call'.op \in SessionOps =>
            /\ m_luaState' = m_luaState
            /\ Closes(events') = 0
            /\ \A name \in UserGlobals :
                    globals[name] # NilV => globals'[name] = globals[name]
       /\ (call'.op = "ExecuteScriptInput" /\ call'.input = "total = 7" /\ m_luaState = "L")
            => globals'["total"] = IntV(7)
       /\ (call'.op = "ExecuteScriptInput" /\ call'.input = "total" /\ m_luaState = "L"
             /\ globals["total"] # NilV)
            => \E i \in 1..Len(events') :
                    /\ events'[i].ch = "output"
                    /\ events'[i].by = "evaluator"
                    /\ events'[i].text = "7\n"]_vars

\* a later execution reads the global an earlier one defined, after the
\* context was moved in between
C15_Witness ==
    /\ call.op = "ExecuteScriptInput"
    /\ call.input = "total"
    /\ TextsOf(By(OnChannel("output"), "evaluator")) = <<"7\n">>
    /\ m_lastCachedBinaryView = "view1"

(***************************************************************************)
(* C16.  Selection(a, b).length() is b - a when b > a and 0 otherwise, for *)
(* all a and b: it never wraps to a large value when b <= a.  The          *)
(* current_selection magic variable is built from (m_selectionBegin,       *)
(* m_selectionEnd) and reports that length: evaluating it prints the two   *)
(* ends and the length.                                                    *)
(***************************************************************************)
SelectionShown ==
    /\ call.op = "ExecuteScriptInput"
    /\ call.input = "current_selection"
    /\ m_luaState = "L"
    /\ globals["current_selection"] # NilV

C16_SelectionLength ==
    /\ \A a \in SelectionEnds, b \in SelectionEnds :
            /\ b > a => SelectionLength(a, b) = b - a
            /\ b <= a => SelectionLength(a, b) = 0
    /\ SelectionShown =>
            /\ globals["current_selection"] = Selection(m_selectionBegin, m_selectionEnd)
            /\ TextsOf(By(OnChannel("output"), "evaluator")) =
                  << "Selection(0x" \o Hex(m_selectionBegin) \o "-0x" \o Hex(m_selectionEnd)
                       \o ", "
                       \o ToString(IF m_selectionEnd > m_selectionBegin
                                   THEN m_selectionEnd - m_selectionBegin ELSE 0)
                       \o " bytes)\n" >>

\* a selection whose end lies before its start is shown with length 0
C16_Witness ==
    /\ SelectionShown
    /\ m_selectionEnd < m_selectionBegin
    /\ TextsOf(By(OnChannel("output"), "evaluator")) = <<"Selection(0x1-0x0, 0 bytes)\n">>

(***************************************************************************)
(* C17.  After a synchronization, current_raw_offset is the file offset    *)
(* the view translates the current address to when a mapping exists, and   *)
(* the absent value when there is no current view or the view reports no   *)
(* mapping for the current address.  The absent value the synchronizer     *)
(* binds is HexAddress(0); on a session whose magic variables were never   *)
(* rebound the name is still unbound (nil).                                *)
(***************************************************************************)
MappingExists ==
    /\ m_currentBinaryView # NullRef
    /\ GetDataOffsetForAddress(m_currentBinaryView, m_currentAddress).found

NeverRebound == globals["current_selection"] = NilV

C17_RawOffset ==
    ExecutedInitialized =>
        /\ MappingExists =>
              /\ globals["current_raw_offset"].ut = "HexAddress"
              /\ globals["current_raw_offset"].n =
                    GetDataOffsetForAddress(m_currentBinaryView, m_currentAddress).fileOffset
        /\ ~MappingExists =>
              \/ globals["current_raw_offset"] = HexAddress(0)
              \/ NeverRebound /\ globals["current_raw_offset"] = NilV

\* both cases after a rebinding: a mapped address, and a view without mapping
C17_Witness ==
    /\ ExecutedInitialized
    /\ MappingExists
    /\ globals["current_raw_offset"] = HexAddress(16)

C17_WitnessAbsent ==
    /\ ExecutedInitialized
    /\ m_currentBinaryView # NullRef
    /\ ~MappingExists
    /\ globals["current_raw_offset"] = HexAddress(0)

(***************************************************************************)
(* C18.  After a synchronization, when no symbol exists at the current     *)
(* address or there is no current view, current_symbol and current_symbols *)
(* are both absent (nil, or for the list form an empty list); when a       *)
(* symbol exists, current_symbol is that symbol and current_symbols is a   *)
(* list whose first element is the same symbol.                            *)
(* The code leaves both names at their previous values when a host query   *)
(* made before the symbol query throws, and commits the cache all the      *)
(* same.                                                                   *)
(***************************************************************************)
SymbolExists ==
    /\ m_currentBinaryView # NullRef
    /\ GetSymbolByAddress(m_currentBinaryView, m_currentAddress) # NullRef

SymbolAtCurrentAddress ==
    RefV("Symbol", GetSymbolByAddress(m_currentBinaryView, m_currentAddress))

C18_SymbolMagicVariables ==
    ExecutedInitialized =>
        /\ SymbolExists =>
              /\ globals["current_symbol"] = SymbolAtCurrentAddress
              /\ globals["current_symbols"].kind = "table"
              /\ Len(globals["current_symbols"].items) >= 1
              /\ globals["current_symbols"].items[1] = SymbolAtCurrentAddress
        /\ ~SymbolExists =>
              /\ globals["current_symbol"] = NilV
              /\ globals["current_symbols"] \in {NilV, TableV(<<>>)}

(***************************************************************************)
(* C19.  Immediately after any synchronization (UpdateMagicVariables) that *)
(* did the rebinding, each of the six cached fields equals the             *)
(* corresponding live field.  UpdateContextCache changes only the six      *)
(* cached fields and HasContextChanged changes nothing: the live fields    *)
(* and the handle are as before the synchronization, and a synchronization *)
(* that finds the context unchanged leaves the cached fields alone too.    *)
(***************************************************************************)
Synchronizes == call'.op \in ExecOps /\ m_luaState = "L"

C19_CacheEqualsLiveAfterSync ==
    [][Synchronizes =>
          /\ live' = live
          /\ m_luaState' = m_luaState
          /\ HasContextChanged => cached' = live'
          /\ ~HasContextChanged => cached' = cached]_vars

\* a synchronization has committed a snapshot in which every field was set
C19_Witness ==
    /\ ExecutedInitialized
    /\ cached = live
    /\ live = <<"view1", "func1", "block1", 1, 1, 0>>
    /\ globals["current_selection"] = Selection(1, 0)

(***************************************************************************)
(* C20.  The cached snapshot is written only by the synchronizer and only  *)
(* after a successful magic-variable refresh: when                         *)
(* UpdateMagicVariableValues fails part-way (its derivation throws), the   *)
(* cache is not committed, so HasContextChanged() stays true and the next  *)
(* execution rebinds again.                                                *)
(* The code catches the exception inside UpdateMagicVariableValues and     *)
(* commits the cache in every case.                                        *)
(***************************************************************************)
DerivationFailed(trace) ==
    \E i \in 1..Len(trace) : trace[i].ch = "log.error" /\ trace[i].by = "synchronizer"

C20_CacheCommittedOnlyOnSuccess ==
    [][/\ call'.op \notin ExecOps => cached' = cached
       /\ (Synchronizes /\ DerivationFailed(events')) =>
            /\ cached' = cached
            /\ HasContextChanged']_vars

(***************************************************************************)
(* C21.  Every synchronization that rebinds writes all magic-variable      *)
(* names: a failure while deriving one field (the view's section query     *)
(* throwing) sets that field to its absent representation and does not     *)
(* stop the fields after it from being rebound, so the set is never left   *)
(* partly from the old snapshot and partly from the new one.               *)
(* The code derives every field inside one try block: the throw skips the  *)
(* failing field and every field after it.                                 *)
(***************************************************************************)
DerivedNow(name) ==
    MagicValue(name, m_currentBinaryView', m_currentFunction', m_currentBasicBlock',
               m_currentAddress', m_selectionBegin', m_selectionEnd')

C21_AllNamesRebound ==
    [][(Synchronizes /\ HasContextChanged) =>
          \A name \in MagicNames :
              \/ globals'[name] = DerivedNow(name)
              \/ /\ DerivationFailed(events')
                 /\ name = "current_sections"
                 /\ globals'[name] = TableV(<<>>)]_vars

(***************************************************************************)
(* C22.  UpdateMagicVariables is called in every ExecuteScriptInput and    *)
(* ExecuteScriptInputFromFilename on an initialized session, once, after   *)
(* the not-ready notification and before any script code runs.  It rebinds *)
(* the magic variables and commits the cache if and only if                *)
(* HasContextChanged() is true at that moment; when the context is         *)
(* unchanged it writes no magic-variable global and no cached field.       *)
(* Rebinding means that UpdateMagicVariableValues ran: every name up to    *)
(* the first derivation that throws holds the value of the live snapshot.  *)
(***************************************************************************)
SyncAt(trace) == {i \in 1..Len(trace) : trace[i].ch = "sync"}

ReboundUpTo(name) ==
    \A n \in MagicNames : IndexOf(n) <= IndexOf(name) => globals'[n] = DerivedNow(n)

C22_SyncBeforeEveryExecution ==
    [][Synchronizes =>
          /\ Cardinality(SyncAt(events')) = 1
          /\ \A i \in SyncAt(events') :
                /\ \E j \in 1..(i - 1) :
                      events'[j].ch = "notify" /\ events'[j].text = NotReadyForInput
                /\ \A k \in 1..Len(events') : events'[k].ch = "run" => i < k
                /\ events'[i].text = "rebind" <=> HasContextChanged
          /\ HasContextChanged =>
                /\ cached' = live
                /\ IF DerivationFailed(events') THEN ReboundUpTo("current_raw_offset")
                   ELSE ReboundUpTo("current_hlil")
          /\ ~HasContextChanged =>
                /\ cached' = cached
                /\ \A n \in MagicNames : globals'[n] = globals[n]]_vars

\* an execution that found the context unchanged after an earlier one rebound it
C22_Witness ==
    /\ ExecutedInitialized
    /\ \E i \in SyncAt(events) : events[i].text = "unchanged"
    /\ RunAt # {}
    /\ globals["current_view"] = RefV("BinaryView", "view1")

(***************************************************************************)
(* C23.  In every synchronization the snapshot committed to the cache is   *)
(* exactly the snapshot the magic variables were derived from: when setter *)
(* calls are interleaved with an execution in flight, none of them takes   *)
(* effect between the comparison, the rebinding and the commit, so after   *)
(* an execution that rebound, every magic variable holds the value derived *)
(* from the cached snapshot.                                               *)
(* The code reads the live fields anew in each of the three steps and      *)
(* nothing keeps a setter from assigning one in between.                   *)
(***************************************************************************)
DerivedFromCache(name) ==
    MagicValue(name, m_lastCachedBinaryView, m_lastCachedFunction, m_lastCachedBasicBlock,
               m_lastCachedAddress, m_lastCachedSelectionBegin, m_lastCachedSelectionEnd)

ClaimedText(v) ==
    CASE v.kind = "string" -> v.s
      [] v.kind = "number" -> ToString(v.n)
      [] v.kind = "boolean" -> IF v.n = 1 THEN "true" ELSE "false"
      [] v.kind = "nil" -> "nil"
      [] v.kind = "table" -> "<table>"
      [] v.kind = "function" -> "<function>"
      [] v.kind = "userdata" /\ v.hook = "ok" -> HookText(v)
      [] OTHER -> "<" \o luaL_typename(v) \o ">"

C24_SafeToStringByKind ==
    [][\A index \in (1..MaxDepth) \cup {-d : d \in 1..MaxDepth}, foreign \in ForeignOutcomes :
          (/\ ApplySafeToString(index, TRUE, foreign)
           /\ stack[AbsIndex(stack, index)].hook # "nonstring")
              => /\ phase' = "running"
                 /\ call'.result = ClaimedText(stack[AbsIndex(stack, index)])]_vars

(***************************************************************************)
(* C25.  With two sessions alive, any operation on one session (a setter,  *)
(* ExecuteScriptInput, ExecuteScriptInputFromFilename, construction,       *)
(* destruction) leaves the live snapshot, the cached snapshot, the         *)
(* readiness flag, the magic-variable bindings and the interpreter state   *)
(* (handle, globals, stack) of the other session unchanged.                *)
(***************************************************************************)
StateOf(id) ==
    IF self = id THEN ThisSession
    ELSE IF peer # NoSession /\ peer.id = id THEN peer ELSE NoSession

Listed(session) ==
    <<session.live, session.cached, session.m_inputReadyState, session.globals,
      session.m_luaState, session.stack>>

C25_SessionsIsolated ==
    [][\A id \in {1, 2} :
          (id # self' /\ StateOf(id) # NoSession)
              => /\ StateOf(id)' # NoSession
                 /\ Listed(StateOf(id))' = Listed(StateOf(id))]_vars

\* the second session has run a script and moved its address; the first one,
\* constructed earlier and used before, kept its own bindings and snapshot
C25_Witness ==
    /\ self = 2
    /\ peer # NoSession
    /\ s_storedLogger = 2
    /\ call.op = "ExecuteScriptInput"
    /\ globals["total"] = IntV(7)
    /\ m_currentAddress = 1
    /\ globals["current_address"] = HexAddress(1)
    /\ peer.globals["total"] = NilV
    /\ peer.globals["current_address"] = HexAddress(0)
    /\ peer.live[4] = 0
    /\ peer.call.op = "ExecuteScriptInputFromFilename"

(***************************************************************************)
(* C26.  The interpreter's value stack is empty whenever                   *)
(* ExecuteScriptInput or ExecuteScriptInputFromFilename returns, on every  *)
(* path: expression success, statement success (a statement sequence or a  *)
(* file that returns values included), statement failure, file failure.    *)
(***************************************************************************)
C26_StackEmptyOnReturn ==
    (call.op \in ExecOps /\ phase = "running") => stack = <<>>

(***************************************************************************)
(* C27.  Within one ExecuteScriptInput call the side effects of the input  *)
(* happen at most once: when the expression-mode attempt fails, no effect  *)
(* of that attempt (print, error or warn output) is observable before the  *)
(* statement-mode attempt runs the same input.                             *)
(***************************************************************************)
C27_EffectsAtMostOnce ==
    (ExecutedInitialized /\ call.op = "ExecuteScriptInput")
        => \A i \in RunAt, j \in RunAt : i < j => j = i + 1

(***************************************************************************)
(* C28.  Every output, error or warning message produced by an execution   *)
(* is emitted after that call's not-ready notification and before its      *)
(* ready notification, in ExecuteScriptInput and in                        *)
(* ExecuteScriptInputFromFilename alike, the failure message of a failed   *)
(* execution included.  Stated for the calls that return.                  *)
(***************************************************************************)
MessageAt == {i \in 1..Len(events) : events[i].ch \in Channels}

C28_MessagesInsideBracket ==
    (ExecutedInitialized /\ phase = "running")
        => \A i \in MessageAt :
              /\ \E n \in NotifyAt(NotReadyForInput) : n < i
              /\ \E r \in NotifyAt(ReadyForScriptProgramInput) : i < r

(***************************************************************************)
(* C29.  A script's call to the global error(msg) or warn(msg) with a      *)
(* string argument emits exactly one message on the error (respectively    *)
(* warning) channel and returns normally to the script: it does not raise, *)
(* the statements after it still run, and the result code of the           *)
(* enclosing ExecuteScriptInput is not changed by the call.                *)
(* In the trace of a call, each run of the chunk shows one message per     *)
(* call of error/warn, with the argument and a line end as text, and the   *)
(* chunk's further effects after it; a chunk that does nothing else that   *)
(* fails reports success.                                                  *)
(***************************************************************************)
RECURSIVE MessagesOf(_, _)
MessagesOf(effects, fn) ==
    IF effects = <<>> THEN <<>>
    ELSE (IF Head(effects).fn = fn THEN <<Head(effects).arg \o "\n">> ELSE <<>>)
         \o MessagesOf(Tail(effects), fn)

RECURSIVE Repeated(_, _)
Repeated(seq, n) == IF n = 0 THEN <<>> ELSE seq \o Repeated(seq, n - 1)

ScriptMessages(ch) == TextsOf(By(OnChannel(ch), "script"))

C29_ErrorAndWarnDoNotRaise ==
    (ExecutedInitialized /\ call.op = "ExecuteScriptInput" /\ phase = "running")
        => LET p == InputOfCall
               runs == Cardinality(RunAt)
           IN  /\ ScriptMessages("error") = Repeated(MessagesOf(p.effects, "error"), runs)
               /\ ScriptMessages("warning") = Repeated(MessagesOf(p.effects, "warn"), runs)
               /\ ScriptMessages("output") = Repeated(MessagesOf(p.effects, "print"), runs)
               /\ (p.stmtLoads /\ ~p.raises) => call.result = SuccessfulScriptExecution

\* error('a') returned to the script: print('b') ran after it and the call succeeded
C29_Witness ==
    /\ ExecutedInitialized
    /\ call.input = "error('a') print('b')"
    /\ call.result = SuccessfulScriptExecution
    /\ ScriptMessages("error") = <<"a\n">>
    /\ ScriptMessages("output") = <<"b\n">>
    /\ \E i, j \in 1..Len(events) :
          /\ i < j
          /\ events[i].ch = "error"
          /\ events[j].ch = "output"

(***************************************************************************)
(* C30.  A VariableWrapper's lazily cached name and type never go stale    *)
(* with respect to renames made through the binding: after set_name or     *)
(* set_type succeeded on any wrapper of a variable, the next GetName /     *)
(* GetTypeName on every wrapper of that variable, copies made before the   *)
(* change included, resolves from the host function again; so what GetName *)
(* and GetTypeName return is what the host function holds at that moment.  *)
(***************************************************************************)
C30_WrapperCacheNeverStale ==
    /\ call.op = "GetName" => call.result = GetVariableNameOrDefault(hostVariable)
    /\ call.op = "GetTypeName" =>
          call.result = IF hostVariable.type = "" THEN "<unknown>" ELSE hostVariable.type

====
